---- MODULE Spec2Model ----
(***************************************************************************)
(* A model of three parts of the Cadence runtime:                          *)
(*   - the value visitor (runtime/interpreter/visitor.go): the Visitor     *)
(*     interface, the EmptyVisitor with its optional callback slots, and   *)
(*     the traversal that the values' Accept methods run over it;          *)
(*   - the semantic checker for interface declarations                     *)
(*     (declareInterfaceDeclaration, VisitInterfaceDeclaration,            *)
(*     checkInterfaceFunctions, checkInterfaceSpecialFunctionBlock);       *)
(*   - the catalogs of signature and hash algorithms of the checker:       *)
(*     SignatureAlgorithms and HashAlgorithms with Name, RawValue and      *)
(*     DocString.                                                          *)
(***************************************************************************)
EXTENDS Integers, Sequences, FiniteSets, TLC

(***************************************************************************)
(* Bounds of the model.                                                    *)
(***************************************************************************)
\* number of values in a traversed value graph
MaxNodes == 4
\* number of reference values in a traversed value graph
MaxRefs == 1
\* number of sibling interface declarations in a checked scope
MaxDecls == 2
\* number of functions declared in an interface
MaxFunctions == 2
\* number of statements in a function block
MaxStatements == 2
\* number of pre-conditions, and of post-conditions, in a function block
MaxConditions == 1
\* The most nested declarations of an interface declaration.
MaxNested == 2
\* The most runs of Phase 2 on one declaration.
MaxRuns == 2
\* The largest magnitude of an integer taken as an algorithm.
MaxAlgorithm == 8

VARIABLES
    \* ---- visitor part ----
    heap,        \* the value graph: [parent, kind, referent]
    root,        \* the value the traversal was started on (0: none)
    visitor,     \* the EmptyVisitor: slot name -> Nil or Callback
    cbRet,       \* what a container callback returns on each value
    stack,       \* values whose Accept call is pending, innermost first
    calls,       \* callback invocations so far: <<slot, value>>
    accepted,    \* values whose Accept has run, in order
    fault,       \* a nil callback was called (Go panics)
    method,      \* the variant whose Visit method ran last ("" before any)
    result       \* what that method returned: "void", "true", "false" ("" before any)

VARIABLES
    \* ---- checker part ----
    program,                    \* the sibling interface declarations of the checked scope
    pc,                         \* where the checker is: [phase, decl, step]
    typeActivations,            \* checker.typeActivations: the stack of type-scope layers
    valueActivations,           \* checker.valueActivations: the stack of value-scope layers
    containerTypes,             \* checker.containerTypes
    interfaceTypes,             \* the InterfaceType objects, by declaration
    interfaceNestedDeclarations,\* checker.Elaboration.InterfaceNestedDeclarations
    pending,                    \* keys of NestedTypes the range loop has yet to reach
    diagnostics,                \* what checker.report has been given, in order
    nestedTypes,                \* the type objects of the nested declarations, by declaration
    functionScopes,             \* the value scopes each function was checked in
    trace                       \* the steps the checker has made, in order

VARIABLES
    \* ---- algorithm catalogs ----
    catalog,     \* the enum type of the receiver: "SignatureAlgorithm" or "HashAlgorithm"
    algo,        \* the receiver, an int
    operation,   \* the method called last ("" before any)
    returned     \* what it gave: [string, int, panic]

visitorVars == <<heap, root, visitor, cbRet, stack, calls, accepted, fault, method, result>>
checkerVars == <<program, pc, typeActivations, valueActivations, containerTypes,
                 interfaceTypes, interfaceNestedDeclarations, pending, diagnostics,
                 nestedTypes, functionScopes, trace>>
catalogVars == <<catalog, algo, operation, returned>>
vars == <<visitorVars, checkerVars, catalogVars>>

\* What a method has returned before any method was called.
NoAnswer == [string |-> "", int |-> 0, panic |-> FALSE]

\* No algorithm is asked for anything.
NoCatalog ==
    /\ catalog = ""
    /\ algo = 0
    /\ operation = ""
    /\ returned = NoAnswer

(***************************************************************************)
(* The Visitor interface: one method per value variant.  VisitValue is the *)
(* generic method; the other methods are named Visit<Variant>.             *)
(***************************************************************************)
Variants ==
    {"Value", "TypeValue", "VoidValue", "BoolValue",
     "StringValue", "ArrayValue", "IntValue", "Int8Value",
     "Int16Value", "Int32Value", "Int64Value", "Int128Value",
     "Int256Value", "UIntValue", "UInt8Value", "UInt16Value",
     "UInt32Value", "UInt64Value", "UInt128Value", "UInt256Value",
     "Word8Value", "Word16Value", "Word32Value", "Word64Value",
     "Fix64Value", "UFix64Value", "CompositeValue", "DictionaryValue",
     "NilValue", "SomeValue", "StorageReferenceValue", "EphemeralReferenceValue",
     "AddressValue", "AuthAccountValue", "PublicAccountValue", "PathValue",
     "CapabilityValue", "LinkValue", "InterpretedFunctionValue", "HostFunctionValue",
     "BoundFunctionValue", "AuthAccountContractsValue", "DeployedContractValue"}

\* The result type each method of the Visitor interface is declared with.
VisitorResultType(variant) ==
    CASE variant = "Value" -> "none"
      [] variant = "TypeValue" -> "none"
      [] variant = "VoidValue" -> "none"
      [] variant = "BoolValue" -> "none"
      [] variant = "StringValue" -> "none"
      [] variant = "ArrayValue" -> "bool"
      [] variant = "IntValue" -> "none"
      [] variant = "Int8Value" -> "none"
      [] variant = "Int16Value" -> "none"
      [] variant = "Int32Value" -> "none"
      [] variant = "Int64Value" -> "none"
      [] variant = "Int128Value" -> "none"
      [] variant = "Int256Value" -> "none"
      [] variant = "UIntValue" -> "none"
      [] variant = "UInt8Value" -> "none"
      [] variant = "UInt16Value" -> "none"
      [] variant = "UInt32Value" -> "none"
      [] variant = "UInt64Value" -> "none"
      [] variant = "UInt128Value" -> "none"
      [] variant = "UInt256Value" -> "none"
      [] variant = "Word8Value" -> "none"
      [] variant = "Word16Value" -> "none"
      [] variant = "Word32Value" -> "none"
      [] variant = "Word64Value" -> "none"
      [] variant = "Fix64Value" -> "none"
      [] variant = "UFix64Value" -> "none"
      [] variant = "CompositeValue" -> "bool"
      [] variant = "DictionaryValue" -> "bool"
      [] variant = "NilValue" -> "none"
      [] variant = "SomeValue" -> "bool"
      [] variant = "StorageReferenceValue" -> "none"
      [] variant = "EphemeralReferenceValue" -> "none"
      [] variant = "AddressValue" -> "none"
      [] variant = "AuthAccountValue" -> "none"
      [] variant = "PublicAccountValue" -> "none"
      [] variant = "PathValue" -> "none"
      [] variant = "CapabilityValue" -> "none"
      [] variant = "LinkValue" -> "none"
      [] variant = "InterpretedFunctionValue" -> "none"
      [] variant = "HostFunctionValue" -> "none"
      [] variant = "BoundFunctionValue" -> "none"
      [] variant = "AuthAccountContractsValue" -> "none"
      [] variant = "DeployedContractValue" -> "none"

\* The callback slot of the EmptyVisitor for a variant: <Variant>Visitor.
SlotOf(variant) == variant \o "Visitor"

Slots == {SlotOf(variant) : variant \in Variants}

Nil == "nil"
Callback == "func"

\* A method returned without calling anything.
Returned(ret) == [calls |-> <<>>, ret |-> ret, fault |-> FALSE]

\* v.<slot>(interpreter, value): the call of the function held by a slot.
\* Calling a nil func value panics.  A bool callback's result is returned.
Invoke(v, slot, value, returnsBool) ==
    IF v[slot] = Nil
    THEN [calls |-> <<>>, ret |-> "panic", fault |-> TRUE]
    ELSE [calls |-> << <<slot, value>> >>,
          ret   |-> IF returnsBool
                    THEN (IF cbRet[value] THEN "true" ELSE "false")
                    ELSE "void",
          fault |-> FALSE]

VisitValue(v, value) ==
    IF v.ValueVisitor = Nil
    THEN Returned("void")
    ELSE Invoke(v, "ValueVisitor", value, FALSE)

VisitTypeValue(v, value) ==
    IF v.TypeValueVisitor = Nil
    THEN Returned("void")
    ELSE Invoke(v, "TypeValueVisitor", value, FALSE)

VisitVoidValue(v, value) ==
    IF v.VoidValueVisitor = Nil
    THEN Returned("void")
    ELSE Invoke(v, "VoidValueVisitor", value, FALSE)

VisitBoolValue(v, value) ==
    IF v.BoolValueVisitor = Nil
    THEN Returned("void")
    ELSE Invoke(v, "BoolValueVisitor", value, FALSE)

\* VisitStringValue that hands the value to the generic slot.
VisitStringValue_CallsGeneric(v, value) ==
    IF v.StringValueVisitor = Nil
    THEN Returned("void")
    ELSE Invoke(v, "ValueVisitor", value, FALSE)

VisitStringValue(v, value) ==
    IF v.StringValueVisitor = Nil
    THEN Returned("void")
    ELSE Invoke(v, "StringValueVisitor", value, FALSE)

VisitArrayValue(v, value) ==
    IF v.ArrayValueVisitor = Nil
    THEN Returned("true")
    ELSE Invoke(v, "ArrayValueVisitor", value, TRUE)

VisitIntValue(v, value) ==
    IF v.IntValueVisitor = Nil
    THEN Returned("void")
    ELSE Invoke(v, "IntValueVisitor", value, FALSE)

VisitInt8Value(v, value) ==
    IF v.Int8ValueVisitor = Nil
    THEN Returned("void")
    ELSE Invoke(v, "Int8ValueVisitor", value, FALSE)

VisitInt16Value(v, value) ==
    IF v.Int16ValueVisitor = Nil
    THEN Returned("void")
    ELSE Invoke(v, "Int16ValueVisitor", value, FALSE)

VisitInt32Value(v, value) ==
    IF v.Int32ValueVisitor = Nil
    THEN Returned("void")
    ELSE Invoke(v, "Int32ValueVisitor", value, FALSE)

VisitInt64Value(v, value) ==
    IF v.Int64ValueVisitor = Nil
    THEN Returned("void")
    ELSE Invoke(v, "Int64ValueVisitor", value, FALSE)

VisitInt128Value(v, value) ==
    IF v.Int128ValueVisitor = Nil
    THEN Returned("void")
    ELSE Invoke(v, "Int128ValueVisitor", value, FALSE)

VisitInt256Value(v, value) ==
    IF v.Int256ValueVisitor = Nil
    THEN Returned("void")
    ELSE Invoke(v, "Int256ValueVisitor", value, FALSE)

VisitUIntValue(v, value) ==
    IF v.UIntValueVisitor = Nil
    THEN Returned("void")
    ELSE Invoke(v, "UIntValueVisitor", value, FALSE)

VisitUInt8Value(v, value) ==
    IF v.UInt8ValueVisitor = Nil
    THEN Returned("void")
    ELSE Invoke(v, "UInt8ValueVisitor", value, FALSE)

VisitUInt16Value(v, value) ==
    IF v.UInt16ValueVisitor = Nil
    THEN Returned("void")
    ELSE Invoke(v, "UInt16ValueVisitor", value, FALSE)

VisitUInt32Value(v, value) ==
    IF v.UInt32ValueVisitor = Nil
    THEN Returned("void")
    ELSE Invoke(v, "UInt32ValueVisitor", value, FALSE)

VisitUInt64Value(v, value) ==
    IF v.UInt64ValueVisitor = Nil
    THEN Returned("void")
    ELSE Invoke(v, "UInt64ValueVisitor", value, FALSE)

VisitUInt128Value(v, value) ==
    IF v.UInt128ValueVisitor = Nil
    THEN Returned("void")
    ELSE Invoke(v, "UInt128ValueVisitor", value, FALSE)

VisitUInt256Value(v, value) ==
    IF v.UInt256ValueVisitor = Nil
    THEN Returned("void")
    ELSE Invoke(v, "UInt256ValueVisitor", value, FALSE)

VisitWord8Value(v, value) ==
    IF v.Word8ValueVisitor = Nil
    THEN Returned("void")
    ELSE Invoke(v, "Word8ValueVisitor", value, FALSE)

VisitWord16Value(v, value) ==
    IF v.Word16ValueVisitor = Nil
    THEN Returned("void")
    ELSE Invoke(v, "Word16ValueVisitor", value, FALSE)

VisitWord32Value(v, value) ==
    IF v.Word32ValueVisitor = Nil
    THEN Returned("void")
    ELSE Invoke(v, "Word32ValueVisitor", value, FALSE)

VisitWord64Value(v, value) ==
    IF v.Word64ValueVisitor = Nil
    THEN Returned("void")
    ELSE Invoke(v, "Word64ValueVisitor", value, FALSE)

VisitFix64Value(v, value) ==
    IF v.Fix64ValueVisitor = Nil
    THEN Returned("void")
    ELSE Invoke(v, "Fix64ValueVisitor", value, FALSE)

VisitUFix64Value(v, value) ==
    IF v.UFix64ValueVisitor = Nil
    THEN Returned("void")
    ELSE Invoke(v, "UFix64ValueVisitor", value, FALSE)

\* VisitCompositeValue that calls the callback and drops its answer.
VisitCompositeValue_DropsAnswer(v, value) ==
    IF v.CompositeValueVisitor = Nil
    THEN Returned("true")
    ELSE [Invoke(v, "CompositeValueVisitor", value, TRUE) EXCEPT !.ret = "true"]

\* VisitCompositeValue whose unset slot answers "do not continue".
VisitCompositeValue_NilStops(v, value) ==
    IF v.CompositeValueVisitor = Nil
    THEN Returned("false")
    ELSE Invoke(v, "CompositeValueVisitor", value, TRUE)

VisitCompositeValue(v, value) ==
    IF v.CompositeValueVisitor = Nil
    THEN Returned("true")
    ELSE Invoke(v, "CompositeValueVisitor", value, TRUE)

\* VisitDictionaryValue that never calls its callback.
VisitDictionaryValue_NeverCalls(v, value) ==
    Returned("true")

VisitDictionaryValue(v, value) ==
    IF v.DictionaryValueVisitor = Nil
    THEN Returned("true")
    ELSE Invoke(v, "DictionaryValueVisitor", value, TRUE)

\* VisitNilValue declared with a bool result, as the container methods are.
VisitNilValue_ReturnsFlag(v, value) ==
    IF v.NilValueVisitor = Nil
    THEN Returned("true")
    ELSE Invoke(v, "NilValueVisitor", value, TRUE)

VisitNilValue(v, value) ==
    IF v.NilValueVisitor = Nil
    THEN Returned("void")
    ELSE Invoke(v, "NilValueVisitor", value, FALSE)

\* VisitSomeValue whose unset slot answers "do not continue".
VisitSomeValue_NilStops(v, value) ==
    IF v.SomeValueVisitor = Nil
    THEN Returned("false")
    ELSE Invoke(v, "SomeValueVisitor", value, TRUE)

VisitSomeValue(v, value) ==
    IF v.SomeValueVisitor = Nil
    THEN Returned("true")
    ELSE Invoke(v, "SomeValueVisitor", value, TRUE)

VisitStorageReferenceValue(v, value) ==
    IF v.StorageReferenceValueVisitor = Nil
    THEN Returned("void")
    ELSE Invoke(v, "StorageReferenceValueVisitor", value, FALSE)

\* VisitEphemeralReferenceValue that calls its callback a second time.
VisitEphemeralReferenceValue_CallsTwice(v, value) ==
    IF v.EphemeralReferenceValueVisitor = Nil
    THEN Returned("void")
    ELSE LET r == Invoke(v, "EphemeralReferenceValueVisitor", value, FALSE)
         IN [r EXCEPT !.calls = r.calls \o r.calls]

VisitEphemeralReferenceValue(v, value) ==
    IF v.EphemeralReferenceValueVisitor = Nil
    THEN Returned("void")
    ELSE Invoke(v, "EphemeralReferenceValueVisitor", value, FALSE)

VisitAddressValue(v, value) ==
    IF v.AddressValueVisitor = Nil
    THEN Returned("void")
    ELSE Invoke(v, "AddressValueVisitor", value, FALSE)

VisitAuthAccountValue(v, value) ==
    IF v.AuthAccountValueVisitor = Nil
    THEN Returned("void")
    ELSE Invoke(v, "AuthAccountValueVisitor", value, FALSE)

VisitPublicAccountValue(v, value) ==
    IF v.PublicAccountValueVisitor = Nil
    THEN Returned("void")
    ELSE Invoke(v, "PublicAccountValueVisitor", value, FALSE)

VisitPathValue(v, value) ==
    IF v.PathValueVisitor = Nil
    THEN Returned("void")
    ELSE Invoke(v, "PathValueVisitor", value, FALSE)

VisitCapabilityValue(v, value) ==
    IF v.CapabilityValueVisitor = Nil
    THEN Returned("void")
    ELSE Invoke(v, "CapabilityValueVisitor", value, FALSE)

VisitLinkValue(v, value) ==
    IF v.LinkValueVisitor = Nil
    THEN Returned("void")
    ELSE Invoke(v, "LinkValueVisitor", value, FALSE)

VisitInterpretedFunctionValue(v, value) ==
    IF v.InterpretedFunctionValueVisitor = Nil
    THEN Returned("void")
    ELSE Invoke(v, "InterpretedFunctionValueVisitor", value, FALSE)

VisitHostFunctionValue(v, value) ==
    IF v.HostFunctionValueVisitor = Nil
    THEN Returned("void")
    ELSE Invoke(v, "HostFunctionValueVisitor", value, FALSE)

VisitBoundFunctionValue(v, value) ==
    IF v.BoundFunctionValueVisitor = Nil
    THEN Returned("void")
    ELSE Invoke(v, "BoundFunctionValueVisitor", value, FALSE)

VisitAuthAccountContractsValue(v, value) ==
    IF v.AuthAccountContractsValueVisitor = Nil
    THEN Returned("void")
    ELSE Invoke(v, "AuthAccountContractsValueVisitor", value, FALSE)

VisitDeployedContractValue(v, value) ==
    IF v.DeployedContractValueVisitor = Nil
    THEN Returned("void")
    ELSE Invoke(v, "DeployedContractValueVisitor", value, FALSE)

\* The method of visitor v that a value of the given variant dispatches to.
VisitMethod(variant, v, value) ==
    CASE variant = "Value" -> VisitValue(v, value)
      [] variant = "TypeValue" -> VisitTypeValue(v, value)
      [] variant = "VoidValue" -> VisitVoidValue(v, value)
      [] variant = "BoolValue" -> VisitBoolValue(v, value)
      [] variant = "StringValue" -> VisitStringValue(v, value)
      [] variant = "ArrayValue" -> VisitArrayValue(v, value)
      [] variant = "IntValue" -> VisitIntValue(v, value)
      [] variant = "Int8Value" -> VisitInt8Value(v, value)
      [] variant = "Int16Value" -> VisitInt16Value(v, value)
      [] variant = "Int32Value" -> VisitInt32Value(v, value)
      [] variant = "Int64Value" -> VisitInt64Value(v, value)
      [] variant = "Int128Value" -> VisitInt128Value(v, value)
      [] variant = "Int256Value" -> VisitInt256Value(v, value)
      [] variant = "UIntValue" -> VisitUIntValue(v, value)
      [] variant = "UInt8Value" -> VisitUInt8Value(v, value)
      [] variant = "UInt16Value" -> VisitUInt16Value(v, value)
      [] variant = "UInt32Value" -> VisitUInt32Value(v, value)
      [] variant = "UInt64Value" -> VisitUInt64Value(v, value)
      [] variant = "UInt128Value" -> VisitUInt128Value(v, value)
      [] variant = "UInt256Value" -> VisitUInt256Value(v, value)
      [] variant = "Word8Value" -> VisitWord8Value(v, value)
      [] variant = "Word16Value" -> VisitWord16Value(v, value)
      [] variant = "Word32Value" -> VisitWord32Value(v, value)
      [] variant = "Word64Value" -> VisitWord64Value(v, value)
      [] variant = "Fix64Value" -> VisitFix64Value(v, value)
      [] variant = "UFix64Value" -> VisitUFix64Value(v, value)
      [] variant = "CompositeValue" -> VisitCompositeValue(v, value)
      [] variant = "DictionaryValue" -> VisitDictionaryValue(v, value)
      [] variant = "NilValue" -> VisitNilValue(v, value)
      [] variant = "SomeValue" -> VisitSomeValue(v, value)
      [] variant = "StorageReferenceValue" -> VisitStorageReferenceValue(v, value)
      [] variant = "EphemeralReferenceValue" -> VisitEphemeralReferenceValue(v, value)
      [] variant = "AddressValue" -> VisitAddressValue(v, value)
      [] variant = "AuthAccountValue" -> VisitAuthAccountValue(v, value)
      [] variant = "PublicAccountValue" -> VisitPublicAccountValue(v, value)
      [] variant = "PathValue" -> VisitPathValue(v, value)
      [] variant = "CapabilityValue" -> VisitCapabilityValue(v, value)
      [] variant = "LinkValue" -> VisitLinkValue(v, value)
      [] variant = "InterpretedFunctionValue" -> VisitInterpretedFunctionValue(v, value)
      [] variant = "HostFunctionValue" -> VisitHostFunctionValue(v, value)
      [] variant = "BoundFunctionValue" -> VisitBoundFunctionValue(v, value)
      [] variant = "AuthAccountContractsValue" -> VisitAuthAccountContractsValue(v, value)
      [] variant = "DeployedContractValue" -> VisitDeployedContractValue(v, value)

(***************************************************************************)
(* The value model.  A value graph is a set of values 1..size owned as a   *)
(* tree: parent[n] is the container that owns n (0 for the outermost       *)
(* value), and a container's children are the values it owns, in their     *)
(* declared order (array index, dictionary entry, field declaration).      *)
(* An ephemeral reference holds its referent without owning it.            *)
(***************************************************************************)
ContainerVariants == {"ArrayValue", "DictionaryValue", "CompositeValue", "SomeValue"}

ReferenceVariants == {"StorageReferenceValue", "EphemeralReferenceValue"}

\* The values of a graph.
Nodes(h) == DOMAIN h.kind

\* The values a container owns, in declared order.
Children(h, n) ==
    SelectSeq([j \in 1..Len(h.parent) |-> j], LAMBDA j : h.parent[j] = n)

\* Values are allocated level by level, so the owner of a later value is
\* never allocated before the owner of an earlier one.
ParentVectors(size) ==
    {p \in [1..size -> 0..size] :
        /\ p[1] = 0
        /\ \A j \in 2..size : p[j] >= 1 /\ p[j] < j
        /\ \A j \in 2..(size - 1) : p[j] <= p[j + 1]}

\* The variants a graph may give its values: only a container owns values,
\* and an optional-present value wraps exactly one value.
VariantsFor(p, variants) ==
    {k \in [DOMAIN p -> variants] :
        /\ \A n \in DOMAIN p :
              LET c == Cardinality({j \in DOMAIN p : p[j] = n}) IN
              /\ k[n] \notin ContainerVariants => c = 0
              /\ k[n] = "SomeValue" => c = 1
        /\ Cardinality({n \in DOMAIN p : k[n] \in ReferenceVariants}) <= MaxRefs}

\* Each ephemeral reference refers to some other value of the graph.
ReferentsFor(k) ==
    LET refs == {n \in DOMAIN k : k[n] = "EphemeralReferenceValue"} IN
    {[n \in DOMAIN k |-> IF n \in refs THEN f[n] ELSE 0] :
        f \in {g \in [refs -> DOMAIN k] : \A n \in refs : g[n] # n}}

\* The value graphs of at most MaxNodes values over the given variants.
IsHeap(h, variants) ==
    \E size \in 1..MaxNodes : \E p \in ParentVectors(size) :
        \E k \in VariantsFor(p, variants) : \E r \in ReferentsFor(k) :
            h = [parent |-> p, kind |-> k, referent |-> r]

\* The graphs of owned values: every container variant, and a primitive.
OwnedVariants == ContainerVariants \cup {"IntValue"}

\* The graphs with references: two container variants, a primitive and
\* both reference variants.
ReferencingVariants ==
    {"ArrayValue", "CompositeValue", "IntValue"} \cup ReferenceVariants

\* value.Accept(interpreter, visitor): dispatch to the visitor's method for
\* the value's variant; a container then hands the visitor to each child,
\* in order, unless the method returned false.
AcceptDescends(h, n, ret) ==
    h.kind[n] \in ContainerVariants /\ ret = "true"

Accept ==
    /\ stack # <<>>
    /\ ~fault
    /\ LET n == Head(stack)
           r == VisitMethod(heap.kind[n], visitor, n)
       IN /\ calls' = calls \o r.calls
          /\ accepted' = Append(accepted, n)
          /\ fault' = r.fault
          /\ method' = heap.kind[n]
          /\ result' = r.ret
          /\ stack' = (IF AcceptDescends(heap, n, r.ret)
                       THEN Children(heap, n) ELSE <<>>) \o Tail(stack)
    /\ UNCHANGED <<heap, root, visitor, cbRet>>
    /\ UNCHANGED <<checkerVars, catalogVars>>

PresentSlots(h) == {SlotOf(h.kind[n]) : n \in Nodes(h)}

\* The visitors of a traversal: any set of the slots the graph's variants
\* dispatch to holds a callback, every other slot is nil.
Visitors(h) ==
    {[s \in Slots |-> IF s \in S THEN Callback ELSE Nil] : S \in SUBSET PresentSlots(h)}

\* A container callback's result is a function of the value it is given.
CallbackResults(h, v) ==
    LET deciding == {n \in Nodes(h) : h.kind[n] \in ContainerVariants
                                    /\ v[SlotOf(h.kind[n])] = Callback} IN
    {[n \in Nodes(h) |-> n \notin P] : P \in SUBSET deciding}

\* The EmptyVisitor as constructed: every slot nil.
DefaultVisitor == [s \in Slots |-> Nil]

\* No checker runs beside the visitor.
NoChecker ==
    /\ program = <<>>
    /\ pc = [phase |-> "done", decl |-> 0, step |-> ""]
    /\ typeActivations = <<>>
    /\ valueActivations = <<>>
    /\ containerTypes = <<>>
    /\ interfaceTypes = <<>>
    /\ interfaceNestedDeclarations = <<>>
    /\ pending = {}
    /\ diagnostics = <<>>
    /\ nestedTypes = <<>>
    /\ functionScopes = <<>>
    /\ trace = <<>>

\* A traversal is started on the outermost value of a graph.
StartTraversal(variants, visitors) ==
    /\ NoChecker
    /\ NoCatalog
    /\ IsHeap(heap, variants)
    /\ root = 1
    /\ visitor \in (IF visitors = "any" THEN Visitors(heap) ELSE {DefaultVisitor})
    /\ cbRet \in CallbackResults(heap, visitor)
    /\ stack = <<root>>
    /\ calls = <<>>
    /\ accepted = <<>>
    /\ fault = FALSE
    /\ method = ""
    /\ result = ""

\* The graphs traversed with any visitor: the graphs of arrays,
\* dictionaries, composites and optionals of up to MaxNodes values, in
\* which a container that owns nothing is a leaf, and the graphs of fewer
\* values that may hold a primitive as well.
InitTraverse ==
    \/ StartTraversal(ContainerVariants, "any")
    \/ /\ StartTraversal(OwnedVariants, "any")
       /\ Len(heap.kind) < MaxNodes

InitReferences == StartTraversal(ReferencingVariants, "any")

InitDefault == StartTraversal(OwnedVariants \cup ReferenceVariants, "default")

NextTraverse == Accept

SpecTraverse == InitTraverse /\ [][NextTraverse]_vars

SpecReferences == InitReferences /\ [][NextTraverse]_vars

SpecDefault == InitDefault /\ [][NextTraverse]_vars

(***************************************************************************)
(* Direct use of the EmptyVisitor: a caller holds one value and calls one  *)
(* method of the visitor on it, either the method of the value's variant   *)
(* or the generic VisitValue.                                              *)
(***************************************************************************)
SingleValue(variant) ==
    [parent |-> <<0>>, kind |-> <<variant>>, referent |-> <<0>>]

InitMethods ==
    /\ NoChecker
    /\ NoCatalog
    /\ \E variant \in Variants \ {"Value"} : heap = SingleValue(variant)
    /\ root = 1
    /\ \E S \in SUBSET {SlotOf(heap.kind[1]), "ValueVisitor"} :
          visitor = [s \in Slots |-> IF s \in S THEN Callback ELSE Nil]
    /\ cbRet \in CallbackResults(heap, visitor)
    /\ stack = <<>>
    /\ calls = <<>>
    /\ accepted = <<>>
    /\ fault = FALSE
    /\ method = ""
    /\ result = ""

CallMethod ==
    /\ method = ""
    /\ \E m \in {heap.kind[1], "Value"} :
          LET r == VisitMethod(m, visitor, root) IN
          /\ method' = m
          /\ result' = r.ret
          /\ calls' = r.calls
          /\ fault' = r.fault
    /\ UNCHANGED <<heap, root, visitor, cbRet, stack, accepted>>
    /\ UNCHANGED <<checkerVars, catalogVars>>

NextMethods == CallMethod

SpecMethods == InitMethods /\ [][NextMethods]_vars

(***************************************************************************)
(* The checker for interface declarations.  The checked scope holds the    *)
(* sibling interface declarations program[1..n].  A declaration has an     *)
(* Identifier, a CompositeKind, its nested declarations and its functions. *)
(* A position is <<line, column>>.                                         *)
(***************************************************************************)
CompositeKinds == {"resource", "struct", "contract"}

\* declaration.DeclarationKind() of an interface declaration.
DeclarationKind(declaration) == declaration.CompositeKind \o " interface"

\* function.FunctionBlock == nil
NilBlock == [nil |-> TRUE]

\* The block of the function declared on a line, with its statements after
\* the block's start.
Block(line, statements, pre, post) ==
    [StartPos       |-> <<line, 0>>,
     Statements     |-> [j \in 1..statements |-> [StartPos |-> <<line, j>>]],
     PreConditions  |-> [j \in 1..pre |-> "pre"],
     PostConditions |-> [j \in 1..post |-> "post"]]

\* The shapes a function's block can have: none, or the numbers of its
\* statements, pre-conditions and post-conditions.
BlockShapes ==
    {<<"nil", 0, 0, 0>>} \cup
    {<<"block", s, p, q>> : s \in 0..MaxStatements, p \in 0..MaxConditions,
                            q \in 0..MaxConditions}

BlockOfShape(line, shape) ==
    IF shape[1] = "nil" THEN NilBlock
    ELSE Block(line, shape[2], shape[3], shape[4])

\* A map that holds nothing, and a map with one more entry.
EmptyMap == <<>>

Put(map, key, value) ==
    [k \in DOMAIN map \cup {key} |-> IF k = key THEN value ELSE map[k]]

\* A nil field of an InterfaceType, and an assigned one.
Unset == {}

Assigned(value) == {value}

InvalidImplementationError(pos, containerKind, implementedKind) ==
    [error           |-> "InvalidImplementationError",
     Pos             |-> pos,
     ContainerKind   |-> containerKind,
     ImplementedKind |-> implementedKind]

RedeclarationError(name, kind) ==
    [error           |-> "RedeclarationError",
     Pos             |-> <<0, 0>>,
     ContainerKind   |-> kind,
     ImplementedKind |-> name]

\* The rule with the test of the post-conditions left out.
checkInterfaceSpecialFunctionBlock_IgnoresPostConditions(block, containerKind, implementedKind) ==
    IF Len(block.Statements) > 0
    THEN << InvalidImplementationError(block.Statements[1].StartPos,
                                       containerKind, implementedKind) >>
    ELSE IF Len(block.PreConditions) = 0
    THEN << InvalidImplementationError(block.StartPos,
                                       containerKind, implementedKind) >>
    ELSE <<>>

\* The rule reporting a statement at the start of the block.
checkInterfaceSpecialFunctionBlock_ReportsAtBlock(block, containerKind, implementedKind) ==
    IF Len(block.Statements) > 0 \/
       (Len(block.PreConditions) = 0 /\ Len(block.PostConditions) = 0)
    THEN << InvalidImplementationError(block.StartPos,
                                       containerKind, implementedKind) >>
    ELSE <<>>

\* The rule without its second branch.
checkInterfaceSpecialFunctionBlock_AcceptsEmpty(block, containerKind, implementedKind) ==
    IF Len(block.Statements) > 0
    THEN << InvalidImplementationError(block.Statements[1].StartPos,
                                       containerKind, implementedKind) >>
    ELSE <<>>

\* What checkInterfaceSpecialFunctionBlock reports for a block.
checkInterfaceSpecialFunctionBlock(block, containerKind, implementedKind) ==
    IF Len(block.Statements) > 0
    THEN << InvalidImplementationError(block.Statements[1].StartPos,
                                       containerKind, implementedKind) >>
    ELSE IF Len(block.PreConditions) = 0 /\ Len(block.PostConditions) = 0
    THEN << InvalidImplementationError(block.StartPos,
                                       containerKind, implementedKind) >>
    ELSE <<>>

Enter(activations) == Append(activations, EmptyMap)

Leave(activations) == SubSeq(activations, 1, Len(activations) - 1)

\* declareSelfValue: self is bound in the innermost value scope.
declareSelfValue(activations, interfaceType) ==
    [activations EXCEPT ![Len(activations)] = Put(@, "self", interfaceType)]

\* The name of the parameter a function declares.
ParameterOf(function) == "p" \o ToString(function.Identifier)

\* visitFunctionDeclaration, as far as the value scopes go: the function's
\* parameter is bound in the innermost value scope.
visitFunctionDeclaration(activations, function) ==
    [activations EXCEPT ![Len(activations)] = Put(@, ParameterOf(function), "parameter")]

\* checkInterfaceFunctions that takes a missing block for an empty one.
RECURSIVE checkInterfaceFunctions_NilBlockAsEmpty(_, _, _, _, _)
checkInterfaceFunctions_NilBlockAsEmpty(functions, i, interfaceType, declarationKind, activations) ==
    IF i > Len(functions)
    THEN [reports |-> <<>>, valueActivations |-> activations, scopes |-> <<>>]
    ELSE LET inFunction == declareSelfValue(Enter(activations), interfaceType)
             visited == visitFunctionDeclaration(inFunction, functions[i])
             reported == checkInterfaceSpecialFunctionBlock(
                             IF functions[i].FunctionBlock # NilBlock
                             THEN functions[i].FunctionBlock
                             ELSE Block(i, 0, 0, 0),
                             declarationKind, "function")
             rest == checkInterfaceFunctions_NilBlockAsEmpty(functions, i + 1, interfaceType,
                                                             declarationKind, Leave(visited))
         IN [reports |-> reported \o rest.reports,
             valueActivations |-> rest.valueActivations,
             scopes |-> <<[function |-> i, signature |-> inFunction, block |-> visited]>>
                        \o rest.scopes]

\* checkInterfaceFunctions with the value scope of a function never left.
RECURSIVE checkInterfaceFunctions_ScopeNotLeft(_, _, _, _, _)
checkInterfaceFunctions_ScopeNotLeft(functions, i, interfaceType, declarationKind, activations) ==
    IF i > Len(functions)
    THEN [reports |-> <<>>, valueActivations |-> activations, scopes |-> <<>>]
    ELSE LET inFunction == declareSelfValue(Enter(activations), interfaceType)
             visited == visitFunctionDeclaration(inFunction, functions[i])
             reported == IF functions[i].FunctionBlock # NilBlock
                         THEN checkInterfaceSpecialFunctionBlock(
                                  functions[i].FunctionBlock, declarationKind, "function")
                         ELSE <<>>
             rest == checkInterfaceFunctions_ScopeNotLeft(functions, i + 1, interfaceType,
                                                          declarationKind, visited)
         IN [reports |-> reported \o rest.reports,
             valueActivations |-> rest.valueActivations,
             scopes |-> <<[function |-> i, signature |-> inFunction, block |-> visited]>>
                        \o rest.scopes]

\* checkInterfaceFunctions for the functions from index i on: each function
\* is checked in a value scope of its own, which holds self before the
\* function is visited and is left again before the next function; a
\* function with a block has the block checked.  The result is what was
\* reported, the value scopes after, and the value scopes each function
\* was visited in and had its block checked in.
RECURSIVE checkInterfaceFunctions(_, _, _, _, _)
checkInterfaceFunctions(functions, i, interfaceType, declarationKind, activations) ==
    IF i > Len(functions)
    THEN [reports |-> <<>>, valueActivations |-> activations, scopes |-> <<>>]
    ELSE LET inFunction == declareSelfValue(Enter(activations), interfaceType)
             visited == visitFunctionDeclaration(inFunction, functions[i])
             reported == IF functions[i].FunctionBlock # NilBlock
                         THEN checkInterfaceSpecialFunctionBlock(
                                  functions[i].FunctionBlock, declarationKind, "function")
                         ELSE <<>>
             rest == checkInterfaceFunctions(functions, i + 1, interfaceType,
                                             declarationKind, Leave(visited))
         IN [reports |-> reported \o rest.reports,
             valueActivations |-> rest.valueActivations,
             scopes |-> <<[function |-> i, signature |-> inFunction, block |-> visited]>>
                        \o rest.scopes]

\* typeActivations.DeclareType in the innermost layer: the identifier is
\* bound to the type; err tells that the layer already held it.
DeclareType(activations, identifier, type) ==
    LET top == activations[Len(activations)] IN
    [activations |-> [activations EXCEPT ![Len(activations)] = Put(top, identifier, type)],
     err         |-> identifier \in DOMAIN top]

\* checker.report(err): a nil error is not recorded.
Report(sink, err, diagnostic) ==
    IF err THEN Append(sink, diagnostic) ELSE sink

\* The nested declarations of a kind, in source order.
NestedOfKind(declaration, kind) ==
    SelectSeq(declaration.NestedDeclarations, LAMBDA nested : nested.Kind = kind)

\* visitNestedDeclarations: interfaces are declared before composites.
NestedInOrder(declaration) ==
    NestedOfKind(declaration, "interface") \o NestedOfKind(declaration, "composite")

RECURSIVE PutAll(_, _, _)
PutAll(map, entries, i) ==
    IF i > Len(entries) THEN map
    ELSE PutAll(Put(map, entries[i][1], entries[i][2]), entries, i + 1)

\* The position in the checker's run.
At(phase, decl, step) == [phase |-> phase, decl |-> decl, step |-> step]

\* checkDestructors(destructors, fields, members, interfaceType, kind, ...):
\* the destructor-consistency check is made for an interface of a resource
\* kind and for no other.  A helper that makes the check for every kind
\* comes first.
checkDestructors_EveryKind(interfaceType) == TRUE

checkDestructors(interfaceType) == interfaceType.CompositeKind = "resource"

\* The step at pc is recorded, with the number of diagnostics before it
\* and with whether the helper called makes its check: of the helpers only
\* checkDestructors may return without making it.
Traced(step) ==
    trace' = Append(trace, [decl |-> pc.decl, step |-> step,
                            reported |-> Len(diagnostics),
                            ran |-> (step = "checkDestructors" =>
                                        checkDestructors(interfaceTypes[pc.decl]))])

\* The declaration at pc.
Current == program[pc.decl]

\* checker.containerTypes[interfaceType]: a type without entry reads false.
ContainerFlag(interfaceType) ==
    interfaceType \in DOMAIN containerTypes /\ containerTypes[interfaceType]

\* A reference to the InterfaceType of a sibling declaration, and to the
\* type of the j-th nested declaration of one.
TypeRef(d) == <<d>>

NestedTypeRef(d, j) == <<d, j>>

\* The InterfaceType as allocated with its identifier, its composite kind
\* and an empty map of nested types, and with every other field nil,
\* but for the mutants below.
NewInterfaceType_WithMembers(declaration) ==
    [Identifier    |-> declaration.Identifier,
     CompositeKind |-> declaration.CompositeKind,
     NestedTypes   |-> EmptyMap,
     Members       |-> Assigned(1..Len(declaration.Functions)),
     InitializerParameterTypeAnnotations |-> Assigned(<<>>)]

NewInterfaceType(declaration) ==
    [Identifier    |-> declaration.Identifier,
     CompositeKind |-> declaration.CompositeKind,
     NestedTypes   |-> EmptyMap,
     Members       |-> Unset,
     InitializerParameterTypeAnnotations |-> Unset]

\* The identifier is declared in the current type scope without reporting
\* what DeclareType answers.
DeclareInterfaceIdentifier_Silent(activations, sink, declaration, d) ==
    [activations |-> DeclareType(activations, declaration.Identifier, TypeRef(d)).activations,
     diagnostics |-> sink]

\* The identifier is declared in the current type scope and the error
\* DeclareType answers, if any, is reported; the declaration goes on.
DeclareInterfaceIdentifier(activations, sink, declaration, d) ==
    LET declared == DeclareType(activations, declaration.Identifier, TypeRef(d)) IN
    [activations |-> declared.activations,
     diagnostics |-> Report(sink, declared.err,
                            RedeclarationError(declaration.Identifier,
                                               DeclarationKind(declaration)))]

\* visitNestedDeclarations, from the j-th nested declaration on, interfaces
\* before composites: each nested declaration with an identifier is
\* declared in the current type scope, and a type is produced for each,
\* without container.
RECURSIVE visitNestedDeclarations(_, _, _, _, _)
visitNestedDeclarations(declaration, d, j, activations, sink) ==
    LET nested == NestedInOrder(declaration) IN
    IF j > Len(nested)
    THEN [activations |-> activations, diagnostics |-> sink,
          nestedDeclarations |->
              PutAll(EmptyMap, [k \in 1..Len(nested) |-> <<nested[k].Identifier, nested[k]>>], 1),
          nestedTypes |->
              [k \in 1..Len(nested) |-> [Kind |-> nested[k].Kind,
                                         Identifier |-> nested[k].Identifier,
                                         ContainerType |-> Unset]]]
    ELSE IF ~nested[j].HasIdentifier
    THEN visitNestedDeclarations(declaration, d, j + 1, activations, sink)
    ELSE LET declared == DeclareType(activations, nested[j].Identifier, NestedTypeRef(d, j)) IN
         visitNestedDeclarations(declaration, d, j + 1, declared.activations,
                                 Report(sink, declared.err,
                                        RedeclarationError(nested[j].Identifier,
                                                           nested[j].Kind)))

\* The nested types are attached with the first type under an identifier
\* kept.
RECURSIVE AttachNestedTypes_KeepsFirst(_, _, _, _)
AttachNestedTypes_KeepsFirst(map, objects, container, j) ==
    IF j > Len(objects) THEN [NestedTypes |-> map, nestedTypes |-> objects]
    ELSE AttachNestedTypes_KeepsFirst(
             IF objects[j].Identifier \in DOMAIN map THEN map
             ELSE Put(map, objects[j].Identifier, j),
             [objects EXCEPT ![j].ContainerType = Assigned(container)],
             container, j + 1)

\* The nested types are attached without the back-reference.
RECURSIVE AttachNestedTypes_NoContainer(_, _, _, _)
AttachNestedTypes_NoContainer(map, objects, container, j) ==
    IF j > Len(objects) THEN [NestedTypes |-> map, nestedTypes |-> objects]
    ELSE AttachNestedTypes_NoContainer(Put(map, objects[j].Identifier, j),
                                       objects, container, j + 1)

\* The two loops that attach the nested types, the interfaces and then the
\* composites, from the j-th on: the type is entered in NestedTypes under
\* its identifier, replacing what the identifier held, and the type's
\* ContainerType is set to the enclosing type.  NestedTypes holds the
\* types by their place among the nested types.
RECURSIVE AttachNestedTypes(_, _, _, _)
AttachNestedTypes(map, objects, container, j) ==
    IF j > Len(objects) THEN [NestedTypes |-> map, nestedTypes |-> objects]
    ELSE AttachNestedTypes(
             Put(map, objects[j].Identifier, j),
             [objects EXCEPT ![j].ContainerType = Assigned(container)],
             container, j + 1)

\* The driver of the two phases: every sibling is declared, then every
\* sibling is visited.  A driver that visits each sibling as soon as it
\* is declared comes first.
AfterDeclare_VisitsAtOnce(d) == At("visit", d, "enter")

AfterDeclare(d) ==
    IF d < Len(program) THEN At("declare", d + 1, "") ELSE At("visit", 1, "enter")

AfterVisit(d) ==
    IF d < Len(program) THEN At("visit", d + 1, "enter") ELSE At("done", d, "")

\* The deferred calls of the function that handles the nested
\* declarations, with the one that leaves the type scope left out.
DeferredNested_KeepsTypeScope(types, values) ==
    [typeActivations |-> types, valueActivations |-> Leave(values)]

\* The deferred calls of the function that handles the nested
\* declarations: the value scope and the type scope it entered are left.
DeferredNested(types, values) ==
    [typeActivations |-> Leave(types), valueActivations |-> Leave(values)]

\* Phase 1, declareInterfaceDeclaration, for the declaration at pc.
declareInterfaceDeclaration ==
    /\ pc.phase = "declare"
    /\ LET d == pc.decl
           declaration == program[d]
           interfaceType == NewInterfaceType(declaration)
           declared == DeclareInterfaceIdentifier(typeActivations, diagnostics,
                                                  declaration, d)
           visited == visitNestedDeclarations(declaration, d, 1,
                                              Enter(declared.activations),
                                              declared.diagnostics)
           attached == AttachNestedTypes(interfaceType.NestedTypes,
                                         visited.nestedTypes, d, 1)
           left == DeferredNested(visited.activations, Enter(valueActivations))
       IN /\ typeActivations' = left.typeActivations
          /\ valueActivations' = left.valueActivations
          /\ diagnostics' = visited.diagnostics
          /\ interfaceNestedDeclarations' =
                Append(interfaceNestedDeclarations, visited.nestedDeclarations)
          /\ nestedTypes' = Append(nestedTypes, attached.nestedTypes)
          /\ interfaceTypes' =
                Append(interfaceTypes,
                       [interfaceType EXCEPT !.NestedTypes = attached.NestedTypes])
          /\ pc' = AfterDeclare(d)
    /\ Traced("declare")
    /\ UNCHANGED <<program, containerTypes, pending, functionScopes>>
    /\ UNCHANGED <<visitorVars, catalogVars>>

\* Phase 1 for the declaration at pc when the visit of a nested
\* declaration panics, after any number of them were declared: the
\* deferred calls run, nothing is recorded and the panic leaves the checker.
declareInterfaceDeclarationPanics ==
    /\ pc.phase = "declare"
    /\ LET d == pc.decl
           declaration == program[d]
           declared == DeclareInterfaceIdentifier(typeActivations, diagnostics,
                                                  declaration, d)
           nested == NestedInOrder(declaration)
       IN \E j \in 1..Len(nested) :
             LET visited == visitNestedDeclarations(
                                [declaration EXCEPT !.NestedDeclarations =
                                                        SubSeq(nested, 1, j - 1)],
                                d, 1, Enter(declared.activations), declared.diagnostics)
                 left == DeferredNested(visited.activations, Enter(valueActivations))
             IN /\ typeActivations' = left.typeActivations
                /\ valueActivations' = left.valueActivations
                /\ diagnostics' = visited.diagnostics
    /\ pc' = At("aborted", pc.decl, "panic")
    /\ Traced("declare panics")
    /\ UNCHANGED <<program, containerTypes, interfaceTypes,
                   interfaceNestedDeclarations, nestedTypes, pending, functionScopes>>
    /\ UNCHANGED <<visitorVars, catalogVars>>

\* The checks of VisitInterfaceDeclaration that only read the declaration,
\* in the order they are made.
ReadOnlyChecks ==
    {"checkDeclarationAccessModifier", "checkFieldsAccessModifier",
     "checkNestedIdentifiers", "checkInitializers", "checkDestructors",
     "checkUnknownSpecialFunctions", "checkResourceFieldNesting",
     "checkCompositeDeclarationSupport"}

\* The steps of VisitInterfaceDeclaration in the order of its statements.
VisitSteps ==
    <<"enter",
      "checkDeclarationAccessModifier",
      "checkFieldsAccessModifier",
      "checkNestedIdentifiers",
      "typeActivations.Enter",
      "declareNestedTypes",
      "membersAndOrigins",
      "checkInitializers",
      "checkDestructors",
      "checkUnknownSpecialFunctions",
      "checkInterfaceFunctions",
      "checkResourceFieldNesting",
      "checkCompositeDeclarationSupport",
      "return">>

StepIndex(step) == CHOOSE i \in 1..Len(VisitSteps) : VisitSteps[i] = step

\* The step after a step, were the function to return once a diagnostic
\* has been reported.
StepAfter_ReturnsAfterReport(step) ==
    IF diagnostics # <<>> /\ StepIndex(step) > StepIndex("typeActivations.Enter")
    THEN "return"
    ELSE VisitSteps[StepIndex(step) + 1]

\* The step after a step: no step is conditional and none returns early.
StepAfter(step) == VisitSteps[StepIndex(step) + 1]

\* What a check of VisitInterfaceDeclaration reports when the declaration
\* breaks its rule.
HelperDiagnostic(step, declaration) ==
    [error           |-> step,
     Pos             |-> <<0, 0>>,
     ContainerKind   |-> DeclarationKind(declaration),
     ImplementedKind |-> declaration.Identifier]

\* Phase 2, VisitInterfaceDeclaration: the container flag is set.
VisitEnter ==
    /\ pc.phase = "visit" /\ pc.step = "enter"
    /\ containerTypes' = Put(containerTypes, pc.decl, TRUE)
    /\ pc' = At("visit", pc.decl, StepAfter(pc.step))
    /\ Traced(pc.step)
    /\ UNCHANGED <<program, nestedTypes, functionScopes, typeActivations, valueActivations, interfaceTypes,
                   interfaceNestedDeclarations, pending, diagnostics>>
    /\ UNCHANGED <<visitorVars, catalogVars>>

\* A check that reads the declaration: with nothing to object to, it
\* reports nothing.
VisitCheck ==
    /\ pc.phase = "visit" /\ pc.step \in ReadOnlyChecks
    /\ pc' = At("visit", pc.decl, StepAfter(pc.step))
    /\ Traced(pc.step)
    /\ UNCHANGED <<program, nestedTypes, functionScopes, typeActivations, valueActivations, containerTypes,
                   interfaceTypes, interfaceNestedDeclarations, pending, diagnostics>>
    /\ UNCHANGED <<visitorVars, catalogVars>>

\* A check that reads the declaration and finds its rule broken: it
\* reports and returns, and VisitInterfaceDeclaration goes on.  A check
\* that is not made finds nothing.
VisitCheckReports ==
    /\ pc.phase = "visit" /\ pc.step \in ReadOnlyChecks
    /\ pc.step = "checkDestructors" => checkDestructors(interfaceTypes[pc.decl])
    /\ diagnostics' = Append(diagnostics, HelperDiagnostic(pc.step, Current))
    /\ pc' = At("visit", pc.decl, StepAfter(pc.step))
    /\ Traced(pc.step)
    /\ UNCHANGED <<program, nestedTypes, functionScopes, typeActivations,
                   valueActivations, containerTypes, interfaceTypes,
                   interfaceNestedDeclarations, pending>>
    /\ UNCHANGED <<visitorVars, catalogVars>>

\* The scope for the nested types, were it to hold the nested types
\* already when it is entered.
VisitEnterTypeScope_LayerNotFresh ==
    /\ pc.phase = "visit" /\ pc.step = "typeActivations.Enter"
    /\ typeActivations' =
          Append(typeActivations,
                 [name \in DOMAIN interfaceTypes[pc.decl].NestedTypes |->
                     NestedTypeRef(pc.decl, interfaceTypes[pc.decl].NestedTypes[name])])
    /\ pending' = DOMAIN interfaceTypes[pc.decl].NestedTypes
    /\ pc' = At("visit", pc.decl,
                IF pending' = {} THEN StepAfter("declareNestedTypes")
                ELSE "declareNestedTypes")
    /\ Traced(pc.step)
    /\ UNCHANGED <<program, nestedTypes, functionScopes, valueActivations, containerTypes, interfaceTypes,
                   interfaceNestedDeclarations, diagnostics>>
    /\ UNCHANGED <<visitorVars, catalogVars>>

\* The scope for the nested types is entered; the range over NestedTypes
\* has all its keys ahead.
VisitEnterTypeScope ==
    /\ pc.phase = "visit" /\ pc.step = "typeActivations.Enter"
    /\ typeActivations' = Enter(typeActivations)
    /\ pending' = DOMAIN interfaceTypes[pc.decl].NestedTypes
    /\ pc' = At("visit", pc.decl,
                IF pending' = {} THEN StepAfter("declareNestedTypes")
                ELSE "declareNestedTypes")
    /\ Traced(pc.step)
    /\ UNCHANGED <<program, nestedTypes, functionScopes, valueActivations, containerTypes, interfaceTypes,
                   interfaceNestedDeclarations, diagnostics>>
    /\ UNCHANGED <<visitorVars, catalogVars>>

\* One iteration of the range over NestedTypes, in whatever order the map
\* yields its keys: the nested type is declared under its identifier.
VisitDeclareNestedType ==
    /\ pc.phase = "visit" /\ pc.step = "declareNestedTypes"
    /\ \E name \in pending :
          LET nestedDeclaration == interfaceNestedDeclarations[pc.decl][name]
              nestedType == NestedTypeRef(pc.decl,
                                          interfaceTypes[pc.decl].NestedTypes[name])
              declared == DeclareType(typeActivations, nestedDeclaration.Identifier,
                                      nestedType)
          IN /\ nestedDeclaration.HasIdentifier
             /\ typeActivations' = declared.activations
             /\ diagnostics' = Report(diagnostics, declared.err,
                                      RedeclarationError(nestedDeclaration.Identifier,
                                                         nestedDeclaration.Kind))
             /\ pending' = pending \ {name}
             /\ pc' = At("visit", pc.decl,
                         IF pending' = {} THEN StepAfter("declareNestedTypes")
                         ELSE "declareNestedTypes")
    /\ Traced(pc.step)
    /\ UNCHANGED <<program, nestedTypes, functionScopes, valueActivations, containerTypes, interfaceTypes,
                   interfaceNestedDeclarations>>
    /\ UNCHANGED <<visitorVars, catalogVars>>

\* The deferred calls with the one that clears the flag left out.
Deferred_KeepsFlag(types, flags, interfaceType) ==
    [typeActivations |-> Leave(types), containerTypes |-> flags]

\* The deferred calls with the one that leaves the type scope left out.
Deferred_NoLeave(types, flags, interfaceType) ==
    [typeActivations |-> types,
     containerTypes  |-> Put(flags, interfaceType, FALSE)]

\* The deferred calls of VisitInterfaceDeclaration, last registered first:
\* the scope of the nested types is left, then the flag is cleared.
Deferred(types, flags, interfaceType) ==
    [typeActivations |-> Leave(types),
     containerTypes  |-> Put(flags, interfaceType, FALSE)]

\* An iteration that meets a nested declaration without identifier, were
\* it to report the declaration and go on to the next.
VisitNestedDeclarationPanics_ReportsAndGoesOn ==
    /\ pc.phase = "visit" /\ pc.step = "declareNestedTypes"
    /\ \E name \in pending :
          /\ ~interfaceNestedDeclarations[pc.decl][name].HasIdentifier
          /\ pending' = pending \ {name}
          /\ diagnostics' = Append(diagnostics, HelperDiagnostic("unreachable", Current))
    /\ pc' = At("visit", pc.decl,
                IF pending' = {} THEN StepAfter("declareNestedTypes")
                ELSE "declareNestedTypes")
    /\ Traced(pc.step)
    /\ UNCHANGED <<program, nestedTypes, functionScopes, typeActivations,
                   valueActivations, containerTypes, interfaceTypes,
                   interfaceNestedDeclarations>>
    /\ UNCHANGED <<visitorVars, catalogVars>>

\* An iteration that meets a nested declaration without identifier panics
\* with the unreachable error: the deferred calls run and the panic leaves
\* the checker.
VisitNestedDeclarationPanics ==
    /\ pc.phase = "visit" /\ pc.step = "declareNestedTypes"
    /\ \E name \in pending :
          ~interfaceNestedDeclarations[pc.decl][name].HasIdentifier
    /\ LET after == Deferred(typeActivations, containerTypes, pc.decl) IN
          /\ typeActivations' = after.typeActivations
          /\ containerTypes' = after.containerTypes
    /\ pc' = At("aborted", pc.decl, "panic")
    /\ Traced("panic")
    /\ UNCHANGED <<program, nestedTypes, functionScopes, valueActivations, interfaceTypes,
                   interfaceNestedDeclarations, pending, diagnostics>>
    /\ UNCHANGED <<visitorVars, catalogVars>>

\* membersAndOrigins and initializerParameterTypeAnnotations: the members
\* are the declared functions; the type object is filled in place.
VisitSetMembers ==
    /\ pc.phase = "visit" /\ pc.step = "membersAndOrigins"
    /\ interfaceTypes' =
          [interfaceTypes EXCEPT
              ![pc.decl].Members = Assigned(1..Len(Current.Functions)),
              ![pc.decl].InitializerParameterTypeAnnotations = Assigned(<<>>)]
    /\ pc' = At("visit", pc.decl, StepAfter(pc.step))
    /\ Traced(pc.step)
    /\ UNCHANGED <<program, nestedTypes, functionScopes, typeActivations, valueActivations, containerTypes,
                   interfaceNestedDeclarations, pending, diagnostics>>
    /\ UNCHANGED <<visitorVars, catalogVars>>

VisitCheckInterfaceFunctions ==
    /\ pc.phase = "visit" /\ pc.step = "checkInterfaceFunctions"
    /\ LET checked == checkInterfaceFunctions(Current.Functions, 1, pc.decl,
                                              DeclarationKind(Current), valueActivations)
       IN /\ diagnostics' = diagnostics \o checked.reports
          /\ valueActivations' = checked.valueActivations
          /\ functionScopes' = functionScopes \o checked.scopes
    /\ pc' = At("visit", pc.decl, StepAfter(pc.step))
    /\ Traced(pc.step)
    /\ UNCHANGED <<program, nestedTypes, typeActivations, containerTypes,
                   interfaceTypes, interfaceNestedDeclarations, pending>>
    /\ UNCHANGED <<visitorVars, catalogVars>>

\* checkInterfaceFunctions when the visit of the i-th function panics:
\* the functions before it were checked, the scope of the i-th was entered
\* and holds self; the deferred leaveValueScope runs, then the deferred
\* calls of VisitInterfaceDeclaration, and the panic leaves the checker.
VisitCheckInterfaceFunctionsPanics ==
    /\ pc.phase = "visit" /\ pc.step = "checkInterfaceFunctions"
    /\ \E i \in 1..Len(Current.Functions) :
          LET checked == checkInterfaceFunctions(SubSeq(Current.Functions, 1, i - 1), 1,
                                                 pc.decl, DeclarationKind(Current),
                                                 valueActivations)
              inFunction == declareSelfValue(Enter(checked.valueActivations), pc.decl)
          IN /\ diagnostics' = diagnostics \o checked.reports
             /\ valueActivations' = Leave(inFunction)
             /\ functionScopes' = functionScopes \o checked.scopes \o
                   <<[function |-> i, signature |-> inFunction, block |-> inFunction]>>
    /\ LET after == Deferred(typeActivations, containerTypes, pc.decl) IN
          /\ typeActivations' = after.typeActivations
          /\ containerTypes' = after.containerTypes
    /\ pc' = At("aborted", pc.decl, "panic")
    /\ Traced("panic")
    /\ UNCHANGED <<program, nestedTypes, interfaceTypes,
                   interfaceNestedDeclarations, pending>>
    /\ UNCHANGED <<visitorVars, catalogVars>>

\* return nil: the deferred calls run; the next sibling is visited.
VisitReturn ==
    /\ pc.phase = "visit" /\ pc.step = "return"
    /\ LET after == Deferred(typeActivations, containerTypes, pc.decl) IN
          /\ typeActivations' = after.typeActivations
          /\ containerTypes' = after.containerTypes
    /\ pc' = AfterVisit(pc.decl)
    /\ Traced(pc.step)
    /\ UNCHANGED <<program, nestedTypes, functionScopes, valueActivations, interfaceTypes,
                   interfaceNestedDeclarations, pending, diagnostics>>
    /\ UNCHANGED <<visitorVars, catalogVars>>

\* No visitor runs beside the checker.
NoVisitor ==
    /\ heap = <<>>
    /\ root = 0
    /\ visitor = <<>>
    /\ cbRet = <<>>
    /\ stack = <<>>
    /\ calls = <<>>
    /\ accepted = <<>>
    /\ fault = FALSE
    /\ method = ""
    /\ result = ""

\* The checker is started on a scope: nothing is declared or reported yet.
StartChecker ==
    /\ NoVisitor
    /\ NoCatalog
    /\ pc = At("declare", 1, "")
    /\ typeActivations = <<EmptyMap>>
    /\ valueActivations = <<EmptyMap>>
    /\ containerTypes = <<>>
    /\ interfaceTypes = <<>>
    /\ interfaceNestedDeclarations = <<>>
    /\ pending = {}
    /\ diagnostics = <<>>
    /\ nestedTypes = <<>>
    /\ functionScopes = <<>>
    /\ trace = <<>>

\* The functions of a declaration: function i is declared on line i.
FunctionsOfShapes(shapes) ==
    [i \in DOMAIN shapes |-> [Identifier |-> i,
                              FunctionBlock |-> BlockOfShape(i, shapes[i])]]

\* One interface declaration without nested declarations, with any functions.
InitFunctions ==
    /\ StartChecker
    /\ \E kind \in {"resource", "struct"}, n \in 0..MaxFunctions :
          \E shapes \in [1..n -> BlockShapes] :
             program = << [Identifier |-> "I", CompositeKind |-> kind,
                           NestedDeclarations |-> <<>>,
                           Functions |-> FunctionsOfShapes(shapes)] >>

NestedNamed == [Kind |-> "interface", Identifier |-> "N", HasIdentifier |-> TRUE]

NestedUnnamed == [Kind |-> "interface", Identifier |-> "", HasIdentifier |-> FALSE]

\* A function whose block holds one pre-condition and nothing else.
ContractOnly(line) == [Identifier |-> line, FunctionBlock |-> Block(line, 0, 1, 0)]

\* Sibling interface declarations, each with at most one nested declaration,
\* which may lack its identifier, and one function.
SiblingDeclarations ==
    {[Identifier |-> name, CompositeKind |-> kind,
      NestedDeclarations |-> nested, Functions |-> <<ContractOnly(1)>>] :
        name \in {"I", "J"}, kind \in {"resource", "struct"},
        nested \in {<<>>, <<NestedNamed>>, <<NestedUnnamed>>}}

InitCheck ==
    /\ StartChecker
    /\ \E n \in 1..MaxDecls : program \in [1..n -> SiblingDeclarations]

NextFunctions ==
    \/ declareInterfaceDeclaration
    \/ VisitEnter
    \/ VisitCheck
    \/ VisitEnterTypeScope
    \/ VisitSetMembers
    \/ VisitCheckInterfaceFunctions
    \/ VisitReturn

NextCheck ==
    \/ NextFunctions
    \/ VisitDeclareNestedType
    \/ VisitNestedDeclarationPanics

SpecFunctions == InitFunctions /\ [][NextFunctions]_vars

SpecCheck == InitCheck /\ [][NextCheck]_vars

\* The nested declarations an interface declaration can hold: interfaces
\* and composites under two identifiers, and one without identifier.
NestedChoices ==
    {[Kind |-> kind, Identifier |-> name, HasIdentifier |-> TRUE] :
        kind \in {"interface", "composite"}, name \in {"N", "M"}}
    \cup {NestedUnnamed}

\* One interface declaration with any nested declarations, in any source
\* order, and one function.
InitNested ==
    /\ StartChecker
    /\ \E kind \in {"resource", "struct"}, n \in 0..MaxNested :
          \E nested \in [1..n -> NestedChoices] :
             program = << [Identifier |-> "I", CompositeKind |-> kind,
                           NestedDeclarations |-> nested,
                           Functions |-> <<ContractOnly(1)>>] >>

NextNested ==
    \/ NextCheck
    \/ declareInterfaceDeclarationPanics

SpecNested == InitNested /\ [][NextNested]_vars

\* The runs of Phase 2 started so far.
RunStarts == SelectSeq(trace, LAMBDA e : e.step = "enter")

\* Phase 2 is run once more on the declarations, whose types Phase 2 has
\* filled already.
VisitAgain ==
    /\ pc.phase = "done"
    /\ Len(RunStarts) < MaxRuns * Len(program)
    /\ pc' = At("visit", 1, "enter")
    /\ Traced("again")
    /\ UNCHANGED <<program, typeActivations, valueActivations, containerTypes,
                   interfaceTypes, interfaceNestedDeclarations, pending,
                   diagnostics, nestedTypes, functionScopes>>
    /\ UNCHANGED <<visitorVars, catalogVars>>

\* One interface declaration with any nested declarations and a function
\* with a block of any shape.
InitRerun ==
    /\ StartChecker
    /\ \E kind \in {"resource", "struct"}, n \in 0..MaxNested, shape \in BlockShapes :
          \E nested \in [1..n -> NestedChoices] :
             program = << [Identifier |-> "I", CompositeKind |-> kind,
                           NestedDeclarations |-> nested,
                           Functions |-> FunctionsOfShapes(<<shape>>)] >>

NextRerun ==
    \/ NextCheck
    \/ VisitAgain

SpecRerun == InitRerun /\ [][NextRerun]_vars

\* One interface declaration whose checks may each find their rule
\* broken, with a function with a block of any shape.
InitReports ==
    /\ StartChecker
    /\ \E kind \in CompositeKinds, shape \in BlockShapes :
          program = << [Identifier |-> "I", CompositeKind |-> kind,
                        NestedDeclarations |-> <<NestedNamed>>,
                        Functions |-> FunctionsOfShapes(<<shape>>)] >>

NextReports ==
    \/ NextFunctions
    \/ VisitDeclareNestedType
    \/ VisitCheckReports

SpecReports == InitReports /\ [][NextReports]_vars

\* One interface declaration with any functions, the visit of any of
\* which may panic.
NextScopes ==
    \/ NextFunctions
    \/ VisitCheckInterfaceFunctionsPanics

SpecScopes == InitFunctions /\ [][NextScopes]_vars

(***************************************************************************)
(* The catalogs of signature and hash algorithms.  An algorithm is an int; *)
(* the cases of a catalog are numbered by iota in the order they are       *)
(* declared.                                                               *)
(***************************************************************************)
SignatureAlgorithmECDSA_P256 == 0
SignatureAlgorithmECDSA_Secp256k1 == 1
SignatureAlgorithmBLSBLS12381 == 2

HashAlgorithmSHA2_256 == 0
HashAlgorithmSHA2_384 == 1
HashAlgorithmSHA3_256 == 2
HashAlgorithmSHA3_384 == 3
HashAlgorithmKMAC128 == 4

SignatureAlgorithms ==
    <<SignatureAlgorithmECDSA_P256,
      SignatureAlgorithmECDSA_Secp256k1,
      SignatureAlgorithmBLSBLS12381>>

HashAlgorithms ==
    <<HashAlgorithmSHA2_256,
      HashAlgorithmSHA2_384,
      HashAlgorithmSHA3_256,
      HashAlgorithmSHA3_384,
      HashAlgorithmKMAC128>>

SignatureAlgorithmTypeName == "SignatureAlgorithm"
HashAlgorithmTypeName == "HashAlgorithm"

SignatureAlgorithmDocStringECDSA_P256 ==
    "\nSignatureAlgorithmECDSA_P256 is Elliptic Curve Digital Signature Algorithm (ECDSA) on the NIST P-256 curve\n"
SignatureAlgorithmDocStringECDSA_Secp256k1 ==
    "\nSignatureAlgorithmECDSA_Secp256k1 is Elliptic Curve Digital Signature Algorithm (ECDSA) on the secp256k1 curve\n"
SignatureAlgorithmDocStringBLSBLS12381 ==
    "\nSignatureAlgorithmDocStringBLSBLS12381 is BLS Signature algorithm on BLS 12-381 curve\n"

HashAlgorithmDocStringSHA2_256 ==
    "\nHashAlgorithmSHA2_256 is Secure Hashing Algorithm 2 (SHA-2) with a 256-bit digest\n"
HashAlgorithmDocStringSHA2_384 ==
    "\nHashAlgorithmSHA2_384 is Secure Hashing Algorithm 2 (SHA-2) with a 384-bit digest\n"
HashAlgorithmDocStringSHA3_256 ==
    "\nHashAlgorithmSHA3_256 is Secure Hashing Algorithm 3 (SHA-3) with a 256-bit digest\n"
HashAlgorithmDocStringSHA3_384 ==
    "\nHashAlgorithmSHA3_384 is Secure Hashing Algorithm 3 (SHA-3) with a 384-bit digest\n"
HashAlgorithmDocStringKMAC128 ==
    "\nHashAlgorithmKMAC128 is KECCAK Message Authentication Code with a 128-bit digest\n"

\* panic(errors.NewUnreachableError())
UnreachableError == [string |-> "", int |-> 0, panic |-> TRUE]
ReturnString(s) == [string |-> s, int |-> 0, panic |-> FALSE]
ReturnInt(i) == [string |-> "", int |-> i, panic |-> FALSE]

\* SignatureAlgorithm.Name in which two cases share a name.
SignatureAlgorithmName_SharedName(a) ==
    CASE a = SignatureAlgorithmECDSA_P256 -> ReturnString("ECDSA_P256")
      [] a = SignatureAlgorithmECDSA_Secp256k1 -> ReturnString("ECDSA_P256")
      [] a = SignatureAlgorithmBLSBLS12381 -> ReturnString("BLSBLS12381")
      [] OTHER -> UnreachableError

SignatureAlgorithmName(a) ==
    CASE a = SignatureAlgorithmECDSA_P256 -> ReturnString("ECDSA_P256")
      [] a = SignatureAlgorithmECDSA_Secp256k1 -> ReturnString("ECDSA_Secp256k1")
      [] a = SignatureAlgorithmBLSBLS12381 -> ReturnString("BLSBLS12381")
      [] OTHER -> UnreachableError

SignatureAlgorithmRawValue(a) == ReturnInt(a)

SignatureAlgorithmDocString(a) ==
    CASE a = SignatureAlgorithmECDSA_P256 ->
            ReturnString(SignatureAlgorithmDocStringECDSA_P256)
      [] a = SignatureAlgorithmECDSA_Secp256k1 ->
            ReturnString(SignatureAlgorithmDocStringECDSA_Secp256k1)
      [] a = SignatureAlgorithmBLSBLS12381 ->
            ReturnString(SignatureAlgorithmDocStringBLSBLS12381)
      [] OTHER -> UnreachableError

HashAlgorithmName(a) ==
    CASE a = HashAlgorithmSHA2_256 -> ReturnString("SHA2_256")
      [] a = HashAlgorithmSHA2_384 -> ReturnString("SHA2_384")
      [] a = HashAlgorithmSHA3_256 -> ReturnString("SHA3_256")
      [] a = HashAlgorithmSHA3_384 -> ReturnString("SHA3_384")
      [] a = HashAlgorithmKMAC128 -> ReturnString("KMAC128")
      [] OTHER -> UnreachableError

HashAlgorithmRawValue(a) == ReturnInt(a)

HashAlgorithmDocString(a) ==
    CASE a = HashAlgorithmSHA2_256 -> ReturnString(HashAlgorithmDocStringSHA2_256)
      [] a = HashAlgorithmSHA2_384 -> ReturnString(HashAlgorithmDocStringSHA2_384)
      [] a = HashAlgorithmSHA3_256 -> ReturnString(HashAlgorithmDocStringSHA3_256)
      [] a = HashAlgorithmSHA3_384 -> ReturnString(HashAlgorithmDocStringSHA3_384)
      [] a = HashAlgorithmKMAC128 -> ReturnString(HashAlgorithmDocStringKMAC128)
      [] OTHER -> UnreachableError

\* The method of the receiver's type is the one that runs.
Name(type, a) ==
    IF type = SignatureAlgorithmTypeName
    THEN SignatureAlgorithmName(a)
    ELSE HashAlgorithmName(a)

RawValue(type, a) ==
    IF type = SignatureAlgorithmTypeName
    THEN SignatureAlgorithmRawValue(a)
    ELSE HashAlgorithmRawValue(a)

DocString(type, a) ==
    IF type = SignatureAlgorithmTypeName
    THEN SignatureAlgorithmDocString(a)
    ELSE HashAlgorithmDocString(a)

\* The cases listed for an enum type.
Cases(type) ==
    IF type = SignatureAlgorithmTypeName
    THEN SignatureAlgorithms
    ELSE HashAlgorithms

CallName ==
    /\ operation' = "Name"
    /\ returned' = Name(catalog, algo)
    /\ UNCHANGED <<catalog, algo>>
    /\ UNCHANGED <<visitorVars, checkerVars>>

CallRawValue ==
    /\ operation' = "RawValue"
    /\ returned' = RawValue(catalog, algo)
    /\ UNCHANGED <<catalog, algo>>
    /\ UNCHANGED <<visitorVars, checkerVars>>

CallDocString ==
    /\ operation' = "DocString"
    /\ returned' = DocString(catalog, algo)
    /\ UNCHANGED <<catalog, algo>>
    /\ UNCHANGED <<visitorVars, checkerVars>>

\* Any int can be converted to either enum type.
InitCatalogs ==
    /\ NoVisitor
    /\ NoChecker
    /\ catalog \in {SignatureAlgorithmTypeName, HashAlgorithmTypeName}
    /\ algo \in -MaxAlgorithm .. MaxAlgorithm
    /\ operation = ""
    /\ returned = NoAnswer

NextCatalogs == CallName \/ CallRawValue \/ CallDocString

SpecCatalogs == InitCatalogs /\ [][NextCatalogs]_vars

(***************************************************************************)
(* Properties of the visitor.                                              *)
(***************************************************************************)
InSeq(x, s) == x \in {s[i] : i \in 1..Len(s)}

NoDuplicates(s) == \A i, j \in 1..Len(s) : s[i] = s[j] => i = j

IsPrefix(s, t) == Len(s) <= Len(t) /\ \A i \in 1..Len(s) : s[i] = t[i]

\* The traversal has run to its end.
Finished == stack = <<>> /\ accepted # <<>> /\ ~fault

\* The callback for value n is set and answers "do not continue".
CallbackStops(n) ==
    /\ heap.kind[n] \in ContainerVariants
    /\ visitor[SlotOf(heap.kind[n])] = Callback
    /\ ~cbRet[n]

\* Value d is owned, directly or through other containers, by value a.
RECURSIVE IsDescendant(_, _, _)
IsDescendant(h, d, a) ==
    /\ h.parent[d] # 0
    /\ (h.parent[d] = a \/ IsDescendant(h, h.parent[d], a))

\* The preorder of the values owned below n, inclusive, in which a
\* container whose callback stops the traversal contributes only itself.
RECURSIVE Preorder(_, _, _), PreorderOfAll(_, _, _)
Preorder(h, n, stops) ==
    <<n>> \o (IF n \in stops THEN <<>> ELSE PreorderOfAll(h, Children(h, n), stops))

PreorderOfAll(h, ns, stops) ==
    IF ns = <<>> THEN <<>>
    ELSE Preorder(h, Head(ns), stops) \o PreorderOfAll(h, Tail(ns), stops)

\* The callback invocations a sequence of visits makes: one per visited
\* value whose slot is set.
CallsOf(ns) ==
    LET called == SelectSeq(ns, LAMBDA n : visitor[SlotOf(heap.kind[n])] = Callback)
    IN [i \in 1..Len(called) |-> <<SlotOf(heap.kind[called[i]]), called[i]>>]

Stopping == {n \in Nodes(heap) : CallbackStops(n)}

\* C1: when the callback of a visited container answers false, no value
\* below that container is visited; when it answers true, or the slot is
\* unset, every child of the container is visited by the end.
C1_PruningSkipsSubtree ==
    \A n \in Nodes(heap) :
        (heap.kind[n] \in ContainerVariants /\ InSeq(n, accepted)) =>
            IF CallbackStops(n)
            THEN \A d \in Nodes(heap) :
                    IsDescendant(heap, d, n) =>
                        (~InSeq(d, accepted) /\ \A i \in 1..Len(calls) : calls[i][2] # d)
            ELSE Finished =>
                    \A i \in 1..Len(Children(heap, n)) :
                        InSeq(Children(heap, n)[i], accepted)

C1_Witness ==
    /\ Finished
    /\ \E n, m \in Nodes(heap) :
          /\ heap.kind[n] = "CompositeValue"
          /\ InSeq(n, accepted) /\ CallbackStops(n)
          /\ \E d \in Nodes(heap) : IsDescendant(heap, d, n)
          /\ InSeq(m, accepted) /\ heap.kind[m] \in ContainerVariants
          /\ visitor[SlotOf(heap.kind[m])] = Callback /\ cbRet[m]
          /\ Children(heap, m) # <<>>

AllUnset == \A s \in Slots : visitor[s] = Nil

\* C2: with every slot unset, a traversal visits every value of the graph
\* exactly once, in preorder, calls nothing, never faults, and always has
\* a next step until it is done, after as many steps as there are values.
C2_EmptyVisitorVisitsAll ==
    AllUnset =>
        /\ visitor = DefaultVisitor
        /\ ~fault
        /\ calls = <<>>
        /\ IsPrefix(accepted, Preorder(heap, root, {}))
        /\ NoDuplicates(accepted)
        /\ stack # <<>> => ENABLED Accept
        /\ stack = <<>> =>
              /\ accepted = Preorder(heap, root, {})
              /\ \A n \in Nodes(heap) : InSeq(n, accepted)

C2_Witness ==
    /\ AllUnset
    /\ stack = <<>>
    /\ Len(accepted) = MaxNodes
    /\ \E n \in Nodes(heap) : heap.parent[n] > 1
    /\ \E n \in Nodes(heap) : Len(Children(heap, n)) > 1

\* C4: the visits, and so the callback invocations, follow the preorder of
\* the graph: a container before its children, children in declared
\* order, each child's subtree before the next child.  The sequence is a
\* function of the value and the visitor, so every traversal of the same
\* value with the same visitor produces it.
C4_FixedPreorder ==
    LET order == Preorder(heap, root, Stopping) IN
    /\ IsPrefix(accepted, order)
    /\ calls = CallsOf(accepted)
    /\ Finished => accepted = order

C4_Witness ==
    /\ Finished
    /\ Len(calls) = MaxNodes
    /\ heap.kind[1] = "CompositeValue"
    /\ Children(heap, 1) = <<2, 3>>
    /\ \E n \in Nodes(heap) : heap.parent[n] = 2
    /\ \E n \in Nodes(heap) : n > 2 /\ heap.parent[n] = 1

\* C6: no value is visited twice in a traversal; a value is visited only
\* through the container that owns it, never through a reference to it;
\* the methods for references report no continuation decision.
C6_VisitedOnce ==
    /\ NoDuplicates(accepted)
    /\ NoDuplicates(calls)
    /\ \A i \in 1..Len(accepted) :
          \/ accepted[i] = root /\ i = 1
          \/ \E j \in 1..(i - 1) :
                /\ accepted[j] = heap.parent[accepted[i]]
                /\ ~CallbackStops(accepted[j])
    /\ method \in ReferenceVariants => result = "void"

C6_Witness ==
    /\ Finished
    /\ \E r \in Nodes(heap) :
          /\ heap.kind[r] = "EphemeralReferenceValue"
          /\ InSeq(r, accepted)
          /\ InSeq(heap.referent[r], accepted)
          /\ heap.referent[r] # root
          /\ visitor["EphemeralReferenceValueVisitor"] = Callback

\* C3: a method whose slot is unset calls nothing; a leaf method then just
\* returns, a container method returns true.
C3_UnsetSlotDefault ==
    (method # "" /\ visitor[SlotOf(method)] = Nil) =>
        /\ calls = <<>>
        /\ ~fault
        /\ result = (IF method \in ContainerVariants THEN "true" ELSE "void")

C3_Witness ==
    /\ method = "SomeValue"
    /\ visitor["SomeValueVisitor"] = Nil
    /\ visitor["ValueVisitor"] = Callback
    /\ result = "true"

\* C5: the methods for array, dictionary, composite and optional-present
\* values are the ones that return a continuation flag, in the Visitor
\* interface and in the EmptyVisitor; every other method returns nothing.
C5_OnlyContainersReturnFlag ==
    method # "" =>
        LET four == {"ArrayValue", "DictionaryValue", "CompositeValue", "SomeValue"} IN
        /\ ~fault
        /\ (result \in {"true", "false"}) <=> (method \in four)
        /\ (result = "void") <=> (method \notin four)
        /\ (VisitorResultType(method) = "bool") <=> (method \in four)

C5_Witness ==
    /\ method = "DictionaryValue"
    /\ result = "false"
    /\ calls = << <<"DictionaryValueVisitor", 1>> >>

\* C21: a method whose slot is set calls that slot, once, with the value
\* it was given, and calls no other slot, the generic one neither; a
\* container method returns what the callback returned, any other method
\* returns nothing.
C21_SetSlotInvokedOnce ==
    (method # "" /\ visitor[SlotOf(method)] = Callback) =>
        /\ calls = << <<SlotOf(method), root>> >>
        /\ ~fault
        /\ result = (IF method \in ContainerVariants
                     THEN (IF cbRet[root] THEN "true" ELSE "false")
                     ELSE "void")

C21_Witness ==
    /\ method = "CompositeValue"
    /\ visitor["CompositeValueVisitor"] = Callback
    /\ visitor["ValueVisitor"] = Callback
    /\ ~cbRet[root]
    /\ result = "false"
    /\ calls = << <<"CompositeValueVisitor", 1>> >>

(***************************************************************************)
(* Properties of the algorithm catalogs.                                   *)
(***************************************************************************)
\* The positions (from 0) at which an algorithm is listed in its catalog.
PositionsOf(type, a) ==
    {i - 1 : i \in {k \in 1..Len(Cases(type)) : Cases(type)[k] = a}}

Listed(type, a) == PositionsOf(type, a) # {}

ListedCases(type) == {Cases(type)[i] : i \in 1..Len(Cases(type))}

\* C22: for a case listed in its catalog, RawValue is the position of the
\* case in the list, counted from 0, Name and DocString return without a
\* fault, and no other case of the catalog has the same Name; for an
\* algorithm not listed, Name and DocString abort with the unreachable fault.
C22_CatalogEntries ==
    operation # "" =>
        IF Listed(catalog, algo)
        THEN /\ ~returned.panic
             /\ operation = "RawValue" =>
                    PositionsOf(catalog, algo) = {returned.int}
             /\ operation = "Name" =>
                    \A other \in ListedCases(catalog) :
                        Name(catalog, other) = returned => other = algo
        ELSE operation \in {"Name", "DocString"} => returned = UnreachableError

C22_Witness ==
    /\ catalog = SignatureAlgorithmTypeName
    /\ algo = SignatureAlgorithmECDSA_Secp256k1
    /\ operation = "Name"
    /\ returned = ReturnString("ECDSA_Secp256k1")

(***************************************************************************)
(* Properties of the interface checker.                                    *)
(***************************************************************************)
\* checkInterfaceFunctions has run for the declaration at pc.
FunctionsChecked ==
    \/ pc.phase = "done"
    \/ pc.phase = "visit" /\ pc.step \in {"checkResourceFieldNesting",
                                          "checkCompositeDeclarationSupport", "return"}

\* The invalid-implementation diagnostics positioned in function i's line.
ImplementationDiagnostics(i) ==
    SelectSeq(diagnostics,
              LAMBDA e : e.error = "InvalidImplementationError" /\ e.Pos[1] = i)

BlocksChecked == {i \in 1..Len(program[1].Functions) :
                     program[1].Functions[i].FunctionBlock # NilBlock}

BlockOf(i) == program[1].Functions[i].FunctionBlock

\* C7: a block without statements and with a pre- or post-condition gets no
\* diagnostic from the interface-function-body rule.
C7_ConditionsOnlyIsLegal ==
    FunctionsChecked =>
        \A i \in BlocksChecked :
            (/\ Len(BlockOf(i).Statements) = 0
             /\ Len(BlockOf(i).PreConditions) + Len(BlockOf(i).PostConditions) >= 1)
            => ImplementationDiagnostics(i) = <<>>

C7_Witness ==
    /\ FunctionsChecked
    /\ \E i, j \in BlocksChecked :
          /\ BlockOf(i).Statements = <<>> /\ BlockOf(i).PreConditions = <<>>
          /\ BlockOf(i).PostConditions # <<>>
          /\ BlockOf(j).Statements = <<>> /\ BlockOf(j).PreConditions # <<>>
          /\ BlockOf(j).PostConditions = <<>>
          /\ diagnostics = <<>>

\* C8: a block with a statement gets exactly one invalid-implementation
\* diagnostic, at the start of its first statement, with or without
\* conditions.
C8_StatementIsRejectedOnce ==
    FunctionsChecked =>
        \A i \in BlocksChecked :
            Len(BlockOf(i).Statements) >= 1 =>
                /\ Len(ImplementationDiagnostics(i)) = 1
                /\ ImplementationDiagnostics(i)[1].Pos = BlockOf(i).Statements[1].StartPos
                /\ ImplementationDiagnostics(i)[1].Pos # BlockOf(i).StartPos

C8_Witness ==
    /\ FunctionsChecked
    /\ \E i \in BlocksChecked :
          /\ Len(BlockOf(i).Statements) = MaxStatements
          /\ BlockOf(i).PreConditions # <<>>
          /\ Len(ImplementationDiagnostics(i)) = 1

\* C9: a block with no statement and no condition gets exactly one
\* invalid-implementation diagnostic, at the start of the block.
C9_EmptyBlockIsRejectedOnce ==
    FunctionsChecked =>
        \A i \in BlocksChecked :
            (/\ BlockOf(i).Statements = <<>>
             /\ BlockOf(i).PreConditions = <<>>
             /\ BlockOf(i).PostConditions = <<>>)
            => /\ Len(ImplementationDiagnostics(i)) = 1
               /\ ImplementationDiagnostics(i)[1].Pos = BlockOf(i).StartPos

C9_Witness ==
    /\ FunctionsChecked
    /\ \E i \in BlocksChecked :
          /\ BlockOf(i) = Block(i, 0, 0, 0)
          /\ Len(ImplementationDiagnostics(i)) = 1

\* VisitInterfaceDeclaration is running for declaration d.
Visiting(d) == pc.phase = "visit" /\ pc.decl = d /\ pc.step # "enter"

\* C10: the container flag of an interface type is set at every point of
\* its VisitInterfaceDeclaration call and at no other time: it is clear
\* after the call has returned and after it has panicked.
C10_FlagOnlyWhileVisiting ==
    \A d \in 1..Len(program) : ContainerFlag(d) <=> Visiting(d)

C10_Witness ==
    /\ pc.phase = "aborted"
    /\ pc.decl = 2
    /\ DOMAIN containerTypes = {1, 2}
    /\ ~ContainerFlag(1) /\ ~ContainerFlag(2)
    /\ Len(typeActivations) = 1

\* The redeclaration diagnostics that name an identifier.
RedeclarationsOf(name) ==
    SelectSeq(diagnostics,
              LAMBDA e : e.error = "RedeclarationError" /\ e.ImplementedKind = name)

SiblingsNamed(name) == {d \in 1..Len(program) : program[d].Identifier = name}

Entered(d) == \E i \in 1..Len(trace) : trace[i].decl = d /\ trace[i].step = "enter"

\* C11: siblings that share an identifier get one identifier-collision
\* diagnostic for each declaration after the first, so two of them get
\* exactly one; the collision stops nothing: Phase 1 records for every
\* declaration a type of its own, with the declaration's identifier and
\* kind, and Phase 2 visits each declaration and fills the type recorded
\* for it.
C11_CollisionReportedOnce ==
    pc.phase # "declare" =>
        /\ \A d \in 1..Len(program) :
              Len(RedeclarationsOf(program[d].Identifier))
                  = Cardinality(SiblingsNamed(program[d].Identifier)) - 1
        /\ Len(interfaceTypes) = Len(program)
        /\ \A d \in 1..Len(program) :
              /\ interfaceTypes[d].Identifier = program[d].Identifier
              /\ interfaceTypes[d].CompositeKind = program[d].CompositeKind
              /\ pc.phase = "done" =>
                    /\ Entered(d)
                    /\ interfaceTypes[d].Members # Unset

C11_Witness ==
    /\ pc.phase = "done"
    /\ Len(program) = 2
    /\ program[1].Identifier = program[2].Identifier
    /\ program[1].CompositeKind # program[2].CompositeKind
    /\ Len(RedeclarationsOf(program[1].Identifier)) = 1
    /\ Len(diagnostics) = 1

\* The nested declarations of declaration d in the order their types are
\* attached, and the types produced for them.
Attached(d) == NestedInOrder(program[d])

Declared(d) == d <= Len(interfaceTypes)

\* The type of the j-th attached nested declaration is what NestedTypes
\* holds under the declaration's identifier.
Retrievable(d, j) ==
    /\ Attached(d)[j].Identifier \in DOMAIN interfaceTypes[d].NestedTypes
    /\ interfaceTypes[d].NestedTypes[Attached(d)[j].Identifier] = j
    /\ nestedTypes[d][j].Identifier = Attached(d)[j].Identifier
    /\ nestedTypes[d][j].Kind = Attached(d)[j].Kind

\* A nested declaration attached later has the same identifier.
Overwritten(d, j) ==
    \E k \in (j + 1)..Len(Attached(d)) :
        Attached(d)[k].Identifier = Attached(d)[j].Identifier

\* C12 as stated: after Phase 1, every nested type is retrievable from
\* NestedTypes under its own identifier and has the enclosing type as its
\* ContainerType.
C12_EveryNestedTypeRetrievable ==
    \A d \in 1..Len(program) : Declared(d) =>
        \A j \in 1..Len(Attached(d)) : Attached(d)[j].HasIdentifier =>
            /\ Retrievable(d, j)
            /\ nestedTypes[d][j].ContainerType = Assigned(d)

\* C12, amended: after Phase 1, every nested type whose identifier no
\* later attached nested type has (interfaces are attached before
\* composites, each in source order) is retrievable from NestedTypes under
\* its own identifier; a nested type whose identifier a later one has is
\* not; every nested type has the enclosing type as its ContainerType.
C12_NestedTypeRetrievableUnlessOverwritten ==
    \A d \in 1..Len(program) : Declared(d) =>
        /\ Len(nestedTypes[d]) = Len(Attached(d))
        /\ \A j \in 1..Len(Attached(d)) : Attached(d)[j].HasIdentifier =>
              /\ Retrievable(d, j) <=> ~Overwritten(d, j)
              /\ nestedTypes[d][j].ContainerType = Assigned(d)

C12_Witness ==
    /\ Declared(1)
    /\ Len(program[1].NestedDeclarations) = 2
    /\ program[1].NestedDeclarations[1].Kind = "composite"
    /\ program[1].NestedDeclarations[2].Kind = "interface"
    /\ program[1].NestedDeclarations[1].Identifier = "N"
    /\ program[1].NestedDeclarations[2].Identifier = "M"
    /\ Retrievable(1, 1) /\ Retrievable(1, 2)
    /\ interfaceTypes[1].NestedTypes["M"] = 1
    /\ nestedTypes[1][1].ContainerType = Assigned(1)

\* The diagnostics reported in the k-th run of Phase 2.
RunDiagnostics(k) ==
    SubSeq(diagnostics, RunStarts[k].reported + 1,
           IF k < Len(RunStarts) THEN RunStarts[k + 1].reported ELSE Len(diagnostics))

\* A run of Phase 2 has returned and no other is under way.
BetweenRuns == pc.phase = "done"

\* A later run of Phase 2 assigns the members and the initializer
\* parameter types the type already has.
SameMembersAssigned ==
    (pc.phase = "visit" /\ pc.step = "membersAndOrigins"
        /\ interfaceTypes[pc.decl].Members # Unset)
    => /\ interfaceTypes'[pc.decl].Members = interfaceTypes[pc.decl].Members
       /\ interfaceTypes'[pc.decl].InitializerParameterTypeAnnotations
             = interfaceTypes[pc.decl].InitializerParameterTypeAnnotations

\* Every finished run reported what the first reported, and left the
\* scopes and the flag as Phase 1 left them.
SameDiagnosticsAndNoLeftover ==
    BetweenRuns =>
        /\ \A k \in 1..Len(RunStarts) : RunDiagnostics(k) = RunDiagnostics(1)
        /\ Len(typeActivations) = 1
        /\ DOMAIN typeActivations[1] = {program[1].Identifier}
        /\ Len(valueActivations) = 1
        /\ ~ContainerFlag(1)

\* C13: a second run of Phase 2 on the same declaration and its filled
\* type gives the same members, the same initializer parameter types and
\* the same diagnostics as the first: no redeclaration of a nested type is
\* reported, and the first run leaves no scope and no flag behind.
C13_SecondRunSame ==
    [](SameDiagnosticsAndNoLeftover) /\ [][SameMembersAssigned]_vars

C13_Witness ==
    /\ BetweenRuns
    /\ Len(RunStarts) = 2
    /\ Len(program[1].NestedDeclarations) = 2
    /\ RunDiagnostics(2) # <<>>
    /\ RunDiagnostics(2) = RunDiagnostics(1)

\* An identifier resolves in the type scopes: some layer holds it.
Resolves(name) ==
    \E l \in 1..Len(typeActivations) : name \in DOMAIN typeActivations[l]

\* C14: every sibling is declared before any sibling is visited: no
\* Phase 1 step follows a Phase 2 step, and whenever Phase 2 is at work
\* the type Phase 1 made for each sibling is recorded under its
\* declaration and every sibling's identifier resolves in the type scopes.
C14_DeclareBeforeVisit ==
    /\ \A i, j \in 1..Len(trace) :
          (i < j /\ trace[j].step = "declare") => trace[i].step = "declare"
    /\ pc.phase = "visit" =>
          /\ Len(interfaceTypes) = Len(program)
          /\ \A d \in 1..Len(program) :
                /\ interfaceTypes[d].Identifier = program[d].Identifier
                /\ interfaceTypes[d].CompositeKind = program[d].CompositeKind
                /\ Resolves(program[d].Identifier)
          /\ pc.step = "enter" => interfaceTypes[pc.decl].Members = Unset

C14_Witness ==
    /\ pc.phase = "visit" /\ pc.decl = 1 /\ pc.step = "enter"
    /\ Len(program) >= 2
    /\ Len(trace) = Len(program)
    /\ program[1].Identifier # program[2].Identifier
    /\ Resolves(program[2].Identifier)

\* The names of the steps made for declaration d in Phase 2.
VisitStepsMade(d) ==
    LET made == SelectSeq(trace, LAMBDA e : e.decl = d /\ e.step # "declare")
    IN [i \in 1..Len(made) |-> made[i].step]

\* Whatever has been reported, Phase 2 neither stops nor faults: it has a
\* next step until it has returned, and when it has returned every step
\* was made, in order.
RunsToTheEnd ==
    /\ pc.phase # "aborted"
    /\ pc.phase = "visit" => ENABLED NextReports
    /\ pc.phase = "done" =>
          VisitStepsMade(1) =
              <<"enter", "checkDeclarationAccessModifier", "checkFieldsAccessModifier",
                "checkNestedIdentifiers", "typeActivations.Enter", "declareNestedTypes",
                "membersAndOrigins", "checkInitializers", "checkDestructors",
                "checkUnknownSpecialFunctions", "checkInterfaceFunctions",
                "checkResourceFieldNesting", "checkCompositeDeclarationSupport",
                "return">>

\* C15: in Phase 2 no reported diagnostic stops the checking: whatever
\* the steps report, every later step is made, up to the validation of
\* resource field nesting and of the composite kind, the call returns
\* normally, and what the sink holds is never removed.
C15_DiagnosticsNeverAbort ==
    [](RunsToTheEnd) /\ [][IsPrefix(diagnostics, diagnostics')]_vars

C15_Witness ==
    /\ pc.phase = "done"
    /\ Len(diagnostics) = 9
    /\ diagnostics[1].error = "checkDeclarationAccessModifier"
    /\ diagnostics[7].error = "InvalidImplementationError"
    /\ diagnostics[9].error = "checkCompositeDeclarationSupport"

\* Phase 2 has assigned the members of declaration d's type.
MembersAssigned(d) ==
    \E i \in 1..Len(trace) : trace[i].decl = d /\ trace[i].step = "membersAndOrigins"

\* Nothing but the members and the initializer parameter types of a
\* recorded type changes, and no recorded type is replaced by another.
FilledInPlace ==
    /\ Len(interfaceTypes') >= Len(interfaceTypes)
    /\ \A d \in 1..Len(interfaceTypes) :
          /\ interfaceTypes'[d].Identifier = interfaceTypes[d].Identifier
          /\ interfaceTypes'[d].CompositeKind = interfaceTypes[d].CompositeKind
          /\ interfaceTypes'[d].NestedTypes = interfaceTypes[d].NestedTypes

\* A type has its members and its initializer parameter types exactly
\* from the step of Phase 2 that assigns them on.
UnsetUntilPhase2 ==
    \A d \in 1..Len(interfaceTypes) :
        /\ interfaceTypes[d].Identifier = program[d].Identifier
        /\ interfaceTypes[d].CompositeKind = program[d].CompositeKind
        /\ (interfaceTypes[d].Members = Unset) <=> ~MembersAssigned(d)
        /\ (interfaceTypes[d].InitializerParameterTypeAnnotations = Unset)
              <=> ~MembersAssigned(d)

\* C16: Phase 1 makes the type with its identifier, its composite kind
\* and its map of nested types, and leaves Members and
\* InitializerParameterTypeAnnotations unset; only Phase 2 sets them, in
\* the type Phase 1 recorded, and changes neither identifier nor kind.
C16_MembersSetOnlyInPhase2 ==
    [](UnsetUntilPhase2) /\ [][FilledInPlace]_vars

C16_Witness ==
    /\ Len(program) >= 2
    /\ pc.phase = "visit" /\ pc.decl = 1
    /\ interfaceTypes[1].Members = Assigned({1})
    /\ interfaceTypes[1].InitializerParameterTypeAnnotations # Unset
    /\ interfaceTypes[2].Members = Unset
    /\ interfaceTypes[2].InitializerParameterTypeAnnotations = Unset

\* Phase 1 has declared the identifier of declaration d.
IdentifierDeclared(d) ==
    \E i \in 1..Len(trace) :
        trace[i].decl = d /\ trace[i].step \in {"declare", "declare panics"}

\* Phase 2 is inside the scope it entered for the nested types.
InNestedScope ==
    pc.phase = "visit" /\ StepIndex(pc.step) > StepIndex("typeActivations.Enter")

NestedIdentifiers(d) ==
    {program[d].NestedDeclarations[j].Identifier :
        j \in {k \in 1..Len(program[d].NestedDeclarations) :
                  program[d].NestedDeclarations[k].HasIdentifier}}

\* C17: declareInterfaceDeclaration and VisitInterfaceDeclaration leave
\* the type scopes and the value scopes as deep as they found them,
\* whether they return or panic; after either, the enclosing layer holds
\* the identifiers of the declared interfaces and none of their nested
\* declarations; only inside Phase 2, from the entry of the nested scope
\* to the exit, there is one more type layer, which holds nested
\* identifiers only.
C17_ScopesBalanced ==
    /\ Len(valueActivations) = 1
    /\ Len(typeActivations) = IF InNestedScope THEN 2 ELSE 1
    /\ DOMAIN typeActivations[1] =
          {program[d].Identifier : d \in {e \in 1..Len(program) : IdentifierDeclared(e)}}
    /\ InNestedScope => DOMAIN typeActivations[2] \subseteq NestedIdentifiers(pc.decl)
    /\ (pc.phase = "done" /\ NestedIdentifiers(1) # {}) =>
          \E i \in 1..Len(trace) : trace[i].step = "declareNestedTypes"

C17_Witness ==
    /\ pc.phase = "aborted"
    /\ IdentifierDeclared(1)
    /\ NestedIdentifiers(1) = {"N"}
    /\ Len(program[1].NestedDeclarations) = 2
    /\ \E i \in 1..Len(trace) : trace[i].step = "declareNestedTypes"
    /\ Len(typeActivations) = 1
    /\ DOMAIN typeActivations[1] = {"I"}

\* The names visible in a stack of value scopes.
Visible(activations) ==
    UNION {DOMAIN activations[l] : l \in 1..Len(activations)}

\* C18: each function is checked in a value scope entered for it alone,
\* one layer above the scopes the loop found; self is bound there to the
\* interface type before the function is visited; when its block is
\* checked, the scope holds self and what the function declares and
\* nothing any other function declared; the scope is left before the next
\* function is checked and when the check panics, so that the loop leaves
\* the value scopes as it found them.
C18_FunctionScopes ==
    /\ Len(valueActivations) = 1
    /\ Visible(valueActivations) = {}
    /\ \A k \in 1..Len(functionScopes) :
          LET f == functionScopes[k] IN
          /\ f.function = k
          /\ Len(f.signature) = 2 /\ Len(f.block) = 2
          /\ Visible(f.signature) = {"self"}
          /\ f.signature[2]["self"] = 1
          /\ f.block[2]["self"] = 1
          /\ Visible(f.block) \subseteq {"self", ParameterOf(program[1].Functions[k])}
    /\ pc.phase = "done" => Len(functionScopes) = Len(program[1].Functions)

C18_Witness ==
    /\ pc.phase = "aborted"
    /\ Len(functionScopes) = 2
    /\ Visible(functionScopes[1].block) = {"self", "p1"}
    /\ Visible(functionScopes[2].block) = {"self"}
    /\ Len(valueActivations) = 1

\* Declaration d has a nested declaration without identifier.
HasUnnamedNested(d) ==
    \E j \in 1..Len(program[d].NestedDeclarations) :
        ~program[d].NestedDeclarations[j].HasIdentifier

\* Phase 2 has panicked.
Phase2Panicked ==
    pc.phase = "aborted" /\ trace[Len(trace)].step = "panic"

\* C19: Phase 2 of a declaration with a nested declaration without
\* identifier never gets past the declaration of the nested types: it
\* panics there.  The panic reports nothing, no step follows it, the run
\* assigns neither Members nor InitializerParameterTypeAnnotations, and
\* still the type scope entered is left and the container flag cleared.
C19_UnnamedNestedPanics ==
    /\ \A d \in 1..Len(program) :
          (HasUnnamedNested(d) /\ pc.decl = d /\ pc.phase \in {"visit", "done"})
          => /\ pc.phase = "visit"
             /\ StepIndex(pc.step) <= StepIndex("declareNestedTypes")
    /\ Phase2Panicked =>
          /\ HasUnnamedNested(pc.decl)
          /\ Len(diagnostics) = trace[Len(trace)].reported
          /\ ~ENABLED NextNested
          /\ \A i \in 1..Len(trace) :
                trace[i].decl = pc.decl =>
                    trace[i].step \in {"declare", "enter", "checkDeclarationAccessModifier",
                                       "checkFieldsAccessModifier", "checkNestedIdentifiers",
                                       "typeActivations.Enter", "declareNestedTypes", "panic"}
          /\ interfaceTypes[pc.decl].Members = Unset
          /\ interfaceTypes[pc.decl].InitializerParameterTypeAnnotations = Unset
          /\ Len(typeActivations) = 1
          /\ ~ContainerFlag(pc.decl)

C19_Witness ==
    /\ Phase2Panicked
    /\ Len(program[1].NestedDeclarations) = 2
    /\ program[1].NestedDeclarations[1].HasIdentifier
    /\ ~program[1].NestedDeclarations[2].HasIdentifier
    /\ pending = {"", "N"}
    /\ containerTypes[1] = FALSE

\* The call of checkDestructors was made for declaration d.
DestructorsCalled(d) ==
    \E i \in 1..Len(trace) : trace[i].decl = d /\ trace[i].step = "checkDestructors"

\* The destructor-consistency check was made for declaration d.
DestructorsChecked(d) ==
    \E i \in 1..Len(trace) :
        trace[i].decl = d /\ trace[i].step = "checkDestructors" /\ trace[i].ran

\* Phase 2 of declaration d is past the place of the call.
PastDestructors(d) ==
    \/ pc.phase = "done"
    \/ pc.phase = "visit" /\ pc.decl = d
         /\ StepIndex(pc.step) > StepIndex("checkDestructors")

BlocksMissing == {i \in 1..Len(program[1].Functions) :
                     program[1].Functions[i].FunctionBlock = NilBlock}

\* C23: a function declared without a block gets no invalid-implementation
\* diagnostic, while a function with a block that has no statement and no
\* condition gets one.
C23_MissingBlockIsNotChecked ==
    FunctionsChecked =>
        /\ \A i \in BlocksMissing : ImplementationDiagnostics(i) = <<>>
        /\ \A i \in BlocksChecked :
              BlockOf(i) = Block(i, 0, 0, 0) => ImplementationDiagnostics(i) # <<>>

C23_Witness ==
    /\ FunctionsChecked
    /\ Len(program[1].Functions) = 2
    /\ BlocksMissing = {1}
    /\ BlockOf(2) = Block(2, 0, 0, 0)
    /\ Len(diagnostics) = 1
    /\ diagnostics[1].error = "InvalidImplementationError"
    /\ diagnostics[1].Pos = <<2, 0>>

\* The number of diagnostics there were when Phase 2 entered the scope of
\* the nested types.
ReportedAtEntry ==
    LET entries == SelectSeq(trace, LAMBDA e : e.step = "typeActivations.Enter")
    IN entries[Len(entries)].reported

\* What has been reported since.
ReportedInScope == SubSeq(diagnostics, ReportedAtEntry + 1, Len(diagnostics))

\* The range over NestedTypes has ended and the scope is not left yet.
NestedTypesDeclared ==
    pc.phase = "visit" /\ StepIndex(pc.step) > StepIndex("declareNestedTypes")

\* The layer that holds every entry of NestedTypes under its key.
LayerOfNestedTypes(d) ==
    [name \in DOMAIN interfaceTypes[d].NestedTypes |->
        NestedTypeRef(d, interfaceTypes[d].NestedTypes[name])]

\* C24: in whatever order the range over NestedTypes yields the nested
\* types, no declaration of a nested type into the scope entered for them
\* reports a redeclaration; when the range has ended the scope holds
\* exactly the entries of NestedTypes, nothing was reported on the way, and
\* the members assigned after it are those of the declaration.
C24_OrderOfNestedTypesIrrelevant ==
    /\ InNestedScope =>
          \A i \in 1..Len(ReportedInScope) :
              ReportedInScope[i].error # "RedeclarationError"
    /\ NestedTypesDeclared =>
          /\ pending = {}
          /\ typeActivations[Len(typeActivations)] = LayerOfNestedTypes(pc.decl)
          /\ ReportedInScope = <<>>
          /\ MembersAssigned(pc.decl) =>
                interfaceTypes[pc.decl].Members
                    = Assigned(1..Len(program[pc.decl].Functions))

C24_Witness ==
    /\ NestedTypesDeclared
    /\ MembersAssigned(1)
    /\ DOMAIN interfaceTypes[1].NestedTypes = {"N", "M"}
    /\ DOMAIN typeActivations[2] = {"N", "M"}
    /\ Len(SelectSeq(trace, LAMBDA e : e.step = "declareNestedTypes")) = 2
    /\ diagnostics = <<>>

\* The attached nested declarations of declaration d of a kind that have
\* an identifier.
AttachedOfKind(d, kind) ==
    {j \in 1..Len(Attached(d)) :
        Attached(d)[j].HasIdentifier /\ Attached(d)[j].Kind = kind}

\* C25: after Phase 1, when a nested interface and a nested composite of
\* one declaration have the same identifier, NestedTypes holds under that
\* identifier a composite type and not the interface type, and both types
\* have the enclosing type as their ContainerType.
C25_CompositeOverwritesInterface ==
    \A d \in 1..Len(program) : Declared(d) =>
        \A j \in AttachedOfKind(d, "interface"), k \in AttachedOfKind(d, "composite") :
            Attached(d)[j].Identifier = Attached(d)[k].Identifier =>
                LET held == interfaceTypes[d].NestedTypes[Attached(d)[j].Identifier] IN
                /\ nestedTypes[d][held].Kind = "composite"
                /\ nestedTypes[d][held].Identifier = Attached(d)[j].Identifier
                /\ held # j
                /\ nestedTypes[d][j].Kind = "interface"
                /\ nestedTypes[d][j].ContainerType = Assigned(d)
                /\ nestedTypes[d][k].ContainerType = Assigned(d)

C25_Witness ==
    /\ Declared(1)
    /\ Len(program[1].NestedDeclarations) = 2
    /\ program[1].NestedDeclarations[1].Kind = "composite"
    /\ program[1].NestedDeclarations[2].Kind = "interface"
    /\ program[1].NestedDeclarations[1].Identifier = "N"
    /\ program[1].NestedDeclarations[2].Identifier = "N"
    /\ DOMAIN interfaceTypes[1].NestedTypes = {"N"}
    /\ nestedTypes[1][interfaceTypes[1].NestedTypes["N"]].Kind = "composite"
    /\ nestedTypes[1][1].ContainerType = Assigned(1)
    /\ nestedTypes[1][2].ContainerType = Assigned(1)

====
